---- MODULE Spec2Model ----
(***************************************************************************)
(* Channel history loading, settings recovery and API payload preparation  *)
(* of the Discord bot (src/bot.py, src/commands, src/utils/history).       *)
(*                                                                         *)
(* One channel (#general) is modelled.  A text is a sequence of words;     *)
(* Python's str.startswith and the `in` substring test become a prefix     *)
(* test and a contiguous-subsequence test on words.  Words that hold       *)
(* punctuation ("**enabled**", "#general.", "prompt:") are kept as the     *)
(* commands format them, so that the substring and regular-expression      *)
(* tests of the code give the answers they give on the real strings.       *)
(***************************************************************************)
EXTENDS Integers, Sequences, FiniteSets, TLC

\* ------------------------------------------------------------------ bounds
\* user messages posted to the channel in one behaviour of Spec
MaxPosts == 2
\* length of the transcript drawn by InitLoad
MaxLen == 3
\* direct calls of load_channel_history in one behaviour of SpecLoad
MaxLoads == 2
\* failed loads (fetch or cleanup) in one behaviour
MaxFailures == 1
\* user messages posted to the channel in one behaviour of SpecReset
MaxResetPosts == 3
\* messages that follow the confirmation in the transcripts of SpecDeep
MaxNewer == 50
\* characters of a response in SpecSplit, and the largest chunk limit
MaxChars == 6

\* --------------------------------------------------------------- constants
\* config.py reads MAX_HISTORY from the environment (10 when unset); the
\* deployment modelled here sets it to 2
MAX_HISTORY == 2
\* the limit load_messages_from_discord hands to channel.history; config.py
\* sets no value for it any more, and every value above MaxLen (as well as
\* no limit) gives the same loads
INITIAL_HISTORY_LOAD == 50
DEFAULT_AUTO_RESPOND == FALSE
AI_PROVIDER == "openai"
DEFAULT_SYSTEM_PROMPT == <<"DEFAULT">>
\* the arrow that starts a line of the !history listing
HISTORY_LINE_PREFIX == <<"=>">>
VALID_PROVIDERS == {"openai", "anthropic", "deepseek"}
Channel == "#general"
Tasks == {"t1", "t2"}

None == "None"

\* ------------------------------------------------------------ text helpers
StartsWith(text, prefix) ==
    /\ Len(prefix) <= Len(text)
    /\ SubSeq(text, 1, Len(prefix)) = prefix

Contains(text, pattern) ==
    \E i \in 1..(Len(text) - Len(pattern) + 1) :
        SubSeq(text, i, i + Len(pattern) - 1) = pattern

\* text after the first occurrence of pattern (str.split(pattern, 1)[1])
AfterFirst(text, pattern) ==
    LET hits == {i \in 1..(Len(text) - Len(pattern) + 1) :
                    SubSeq(text, i, i + Len(pattern) - 1) = pattern}
        first == CHOOSE i \in hits : \A j \in hits : i <= j
    IN  SubSeq(text, first + Len(pattern), Len(text))

\* str.replace("**", "").strip() on a text whose bold markers are words
StripBold(text) == SelectSeq(text, LAMBDA w : w # "**")

\* words that begin with '!', with '/', and words that end with ':'
BangWords == {"!setprompt", "!prompt", "!ai", "!autorespond", "!thinking"}
SlashWords == {"/roll"}
ColonWords == {"U:", "prompt:", "SYSTEM_PROMPT_UPDATE:"}

\* words holding a character outside [A-Za-z0-9_]
NonWordTokens ==
    BangWords \cup SlashWords \cup ColonWords \cup
    {"**", "**enabled**", "**disabled**", "#general", "#general.",
     "**openai**", "**anthropic**", "**deepseek**",
     "**openai**.", "**anthropic**.", "**deepseek**.",
     "(**openai**).", "(openai)", "(anthropic)", "(deepseek)",
     "Auto-response", "(same", "setting).", "default.", "on,"}

\* the leading run of word characters of a word (what a regex group (\w+)
\* captures when it starts at the word); "" when the word starts otherwise
WordRun(w) ==
    IF w \notin NonWordTokens THEN w
    ELSE IF w = "Auto-response" THEN "Auto"
    ELSE IF w = "default." THEN "default"
    ELSE IF w = "setting)." THEN "setting"
    ELSE IF w = "on," THEN "on"
    ELSE IF w = "prompt:" THEN "prompt"
    ELSE IF w = "U:" THEN "U"
    ELSE IF w = "SYSTEM_PROMPT_UPDATE:" THEN "SYSTEM_PROMPT_UPDATE"
    ELSE ""

\* \w+ followed by a blank: the whole word is word characters
IsWord(w) == w \notin NonWordTokens

\* #\w+ followed by a blank
IsChannelRef(w) == w = "#general"

\* \((\w+)\) at the start of a word: the captured name, "" when no match
ParenWord(w) ==
    IF w = "(openai)" THEN "openai"
    ELSE IF w = "(anthropic)" THEN "anthropic"
    ELSE IF w = "(deepseek)" THEN "deepseek"
    ELSE ""

Bold == [enabled |-> "**enabled**", disabled |-> "**disabled**",
         openai |-> "**openai**", anthropic |-> "**anthropic**",
         deepseek |-> "**deepseek**"]
BoldDot == [openai |-> "**openai**.", anthropic |-> "**anthropic**.",
            deepseek |-> "**deepseek**."]

\* ---------------------------------------------- texts users and bot send
Hi == <<"hi">>
Reply == <<"R1">>
P1 == <<"P1">>
P2 == <<"P2">>
Prompts == {P1, P2}
\* a prompt text that itself begins with the marker of a prompt record
MarkedPrompt == <<"SYSTEM_PROMPT_UPDATE:", "P1">>

SetPromptCommand(p) == <<"!setprompt">> \o p
PromptCommand(p) == <<"!prompt">> \o p
PromptResetCommand == <<"!prompt", "reset">>
AiCommand(name) == <<"!ai", name>>
AutoRespondCommand(setting) == <<"!autorespond", setting>>
ThinkingCommand(setting) == <<"!thinking", setting>>

PromptUpdatedMsg(p) ==
    <<"System", "prompt", "updated", "for", "#general.",
      "New", "prompt:", "**">> \o p \o <<"**">>
PromptUnchangedMsg ==
    <<"System", "prompt", "unchanged", "(same", "as", "current", "setting).">>
PromptResetMsg ==
    <<"System", "prompt", "for", "#general", "reset", "to", "default.">>
PromptAlreadyDefaultMsg ==
    <<"System", "prompt", "for", "#general", "is", "already", "the", "default.">>
AutoRespondNowMsg(action) ==
    <<"Auto-response", "is", "now", Bold[action], "in", "#general">>
AutoRespondAlreadyMsg(action) ==
    <<"Auto-response", "is", "already", Bold[action], "in", "#general">>
AutoSetupMsg(action) ==
    <<"Auto-response", "is", "now", Bold[action], "in", "#general",
      "(based", "on", "default", "setting)">>
ThinkingChangedMsg(action) ==
    <<"DeepSeek", "thinking", "display", Bold[action], "for", "#general">>
ThinkingAlreadyMsg(action) ==
    <<"DeepSeek", "thinking", "display", "is", "already", Bold[action],
      "in", "#general">>
ProviderChangedMsg(old, new) ==
    <<"AI", "provider", "for", "#general", "changed", "from", Bold[old],
      "to", BoldDot[new]>>
ProviderResetMsg(old) ==
    <<"AI", "provider", "for", "#general", "reset", "from", Bold[old],
      "to", "default", "(**openai**).">>
ProviderAlreadySetMsg(name) ==
    <<"AI", "provider", "for", "#general", "is", "already", "set", "to",
      BoldDot[name]>>
ProviderAlreadyDefaultMsg ==
    <<"AI", "provider", "for", "#general", "is", "already", "using", "the",
      "default", "(**openai**).">>
\* the unformatted confirmation shown in the docstring of
\* parse_ai_provider_change
PlainProviderChangedMsg(old, new) ==
    <<"AI", "provider", "for", "#general", "changed", "from", old, "to", new>>

\* utils/response_handler.py: what the bot posts when the AI call raised
API_ERROR_PREFIX ==
    <<"I'm", "sorry", "an", "API", "error", "occurred", "when", "attempting",
      "to", "respond:">>
ApiErrorMsg == API_ERROR_PREFIX \o <<"E1">>

\* utils/response_handler.py: the reasoning block of a DeepSeek response,
\* which handle_ai_response_task sends as a message of its own
REASONING_PREFIX == "[DEEPSEEK_REASONING]:"
ReasoningMsg == <<REASONING_PREFIX, "R1">>

\* a message of the remote transcript, a record of the window
Raw(author, content) == [author |-> author, content |-> content]
Rec(role, content) == [role |-> role, content |-> content]

\* --------------------------------------------- message classification
\* utils/history/message_processing.py
is_bot_command(text) ==
    IF Len(text) > 0 /\ text[1] = "!prompt" THEN FALSE
    ELSE \/ (Len(text) > 0 /\ text[1] \in BangWords)
         \/ \E i \in 1..(Len(text) - 1) :
                text[i] \in ColonWords /\ text[i + 1] \in BangWords
         \/ (Len(text) > 0 /\ text[1] \in SlashWords)

\* utils/history_utils.py (the one bot.py imports)
history_utils_is_bot_command(text) ==
    IF Len(text) > 0 /\ text[1] = "!setprompt" THEN FALSE
    ELSE \/ (Len(text) > 0 /\ text[1] \in BangWords)
         \/ \E i \in 1..(Len(text) - 1) :
                text[i] \in ColonWords /\ text[i + 1] \in BangWords
         \/ (Len(text) > 0 /\ text[1] \in SlashWords)

is_history_output(text) ==
    IF Contains(text, <<"System", "prompt", "updated", "for">>) THEN FALSE
    ELSE \/ Contains(text, <<"**Conversation", "History**">>)
         \/ Contains(text, HISTORY_LINE_PREFIX)
         \/ StartsWith(text, <<"**1.">>)
         \/ StartsWith(text, <<"**2.">>)
         \/ (Contains(text, <<"Loaded">>)
             /\ Contains(text, <<"messages", "from", "channel", "history">>))
         \/ Contains(text, <<"Cleaned", "history:", "removed">>)
         \/ Contains(text, <<"**Bot", "Status", "for">>)
         \/ Contains(text, <<"Usage:", "!history">>)
         \/ Contains(text, <<"Options:", "on,", "off">>)
         \/ Contains(text, <<"Available", "providers:">>)
         \/ Contains(text, <<"DeepSeek", "thinking", "display", "is", "currently">>)
         \/ Contains(text, <<"DeepSeek", "thinking", "display", "is", "already">>)
         \/ Contains(text, <<"Auto-response", "is", "currently">>)
         \/ Contains(text, <<"Auto-response", "is", "already">>)
         \/ Contains(text, <<"is", "already", "set", "to">>)
         \/ Contains(text, <<"is", "already", "using", "the", "default">>)
         \/ (Contains(text, <<"System", "prompt", "for">>)
             /\ Contains(text, <<"is", "already">>))
         \/ Contains(text, <<"Current", "system", "prompt", "for">>)
         \/ Contains(text, <<"You", "need", "administrator", "permissions">>)
         \/ Contains(text, <<"Invalid", "setting:">>)
         \/ Contains(text, <<"Invalid", "AI", "provider:">>)
         \/ Contains(text, <<"Unknown", "history", "command:">>)
         \/ Contains(text, <<"No", "Category:">>)
         \/ (Contains(text, <<"Manage", "the">>)
             /\ \E i \in 1..Len(text) : text[i] \in {"provider", "providers:"})

history_utils_is_history_output(text) ==
    IF Contains(text, <<"System", "prompt", "updated", "for">>) THEN FALSE
    ELSE \/ Contains(text, <<"**Conversation", "History**">>)
         \/ Contains(text, HISTORY_LINE_PREFIX)
         \/ StartsWith(text, <<"**1.">>)
         \/ StartsWith(text, <<"**2.">>)
         \/ (Contains(text, <<"Loaded">>)
             /\ Contains(text, <<"messages", "from", "channel", "history">>))
         \/ Contains(text, <<"Cleaned", "history:", "removed">>)
         \/ (\E i \in 1..(Len(text) - 3) :
                SubSeq(text, i, i + 2) = <<"Auto-response", "is", "now">>)
         \/ Contains(text, <<"Auto-response", "is", "currently">>)
         \/ Contains(text, <<"Current", "system", "prompt", "for">>)
         \/ (Contains(text, <<"System", "prompt", "for">>)
             /\ Contains(text, <<"reset", "to", "default.">>))
         \/ Contains(text, <<"AI", "provider", "for">>)
         \/ Contains(text, <<"Current", "AI", "provider", "for">>)

should_skip_message_from_history(content) ==
    IF Len(content) > 0 /\ content[1] \in BangWords
    THEN is_bot_command(content)
    ELSE FALSE

create_user_message(content) == Rec("user", <<"U:">> \o content)
create_assistant_message(content) == Rec("assistant", content)
create_system_update_message(content) == Rec("system", content)

\* ------------------------------------------------------ settings parser
\* utils/history/settings_parser.py; NoPrompt stands for Python's None
\* where a prompt text is expected
NoPrompt == <<>>

parse_system_prompt_update(msg) ==
    IF msg.role = "system"
       /\ StartsWith(msg.content, <<"SYSTEM_PROMPT_UPDATE:">>)
    THEN Tail(msg.content)
    ELSE NoPrompt

parse_ai_provider_change(msg) ==
    IF msg.role # "assistant" THEN None
    ELSE
      LET c == msg.content
          changed == {i \in 1..(Len(c) - 8) :
                        /\ SubSeq(c, i, i + 2) = <<"AI", "provider", "for">>
                        /\ IsChannelRef(c[i + 3])
                        /\ SubSeq(c, i + 4, i + 5) = <<"changed", "from">>
                        /\ IsWord(c[i + 6])
                        /\ c[i + 7] = "to"
                        /\ WordRun(c[i + 8]) # ""}
          reset == {i \in 1..(Len(c) - 9) :
                        /\ SubSeq(c, i, i + 2) = <<"AI", "provider", "for">>
                        /\ IsChannelRef(c[i + 3])
                        /\ SubSeq(c, i + 4, i + 5) = <<"reset", "from">>
                        /\ IsWord(c[i + 6])
                        /\ SubSeq(c, i + 7, i + 8) = <<"to", "default">>
                        /\ ParenWord(c[i + 9]) # ""}
          defaults == {i \in 1..(Len(c) - 1) :
                        c[i] = "default" /\ ParenWord(c[i + 1]) # ""}
          Least(S) == CHOOSE i \in S : \A j \in S : i <= j
      IN  IF changed # {}
          THEN LET provider == WordRun(c[Least(changed) + 8])
               IN  IF provider = "default" /\ defaults # {}
                   THEN ParenWord(c[Least(defaults) + 1])
                   ELSE provider
          ELSE IF reset # {}
          THEN ParenWord(c[Least(reset) + 9])
          ELSE None

parse_auto_respond_change(msg) ==
    IF msg.role # "assistant" THEN None
    ELSE IF Contains(msg.content, <<"Auto-response", "is", "now">>)
    THEN IF Contains(msg.content, <<"**enabled**">>) THEN "True"
         ELSE IF Contains(msg.content, <<"**disabled**">>) THEN "False"
         ELSE None
    ELSE None

parse_thinking_setting_change(msg) ==
    IF msg.role # "assistant" THEN None
    ELSE IF Contains(msg.content, <<"DeepSeek", "thinking", "display">>)
    THEN IF Contains(msg.content, <<"**enabled**">>) THEN "True"
         ELSE IF Contains(msg.content, <<"**disabled**">>) THEN "False"
         ELSE None
    ELSE None

\* the chronological scan keeps, for each type, the value of the last
\* record that parses; parsed[i] is what the parser of the type gives for
\* the i-th record
LatestParsed(parsed, none) ==
    LET hits == {i \in 1..Len(parsed) : parsed[i] # none}
    IN  IF hits = {} THEN none
        ELSE parsed[CHOOSE i \in hits : \A j \in hits : j <= i]

\* A record whose content is Python's None instead of a text.
NoneContent == <<None>>

\* parse_system_prompt_update raises on it when the role is "system"
\* (None.startswith); for another role the test of the role ends the
\* function before the content is touched
PromptParseRaises(msg) ==
    msg.role = "system" /\ msg.content = NoneContent

\* parse_ai_provider_change, the second parser of the loop body, raises on
\* it when the role is "assistant" (re.search on None)
ProviderParseRaises(msg) ==
    msg.role = "assistant" /\ msg.content = NoneContent

\* the body of the loop raised for msg: the except clause of the loop logs
\* and continues with the next record.  Both raises happen before anything
\* was assigned for msg (parse_system_prompt_update gave None for an
\* assistant record).
ScanRaises(msg) == PromptParseRaises(msg) \/ ProviderParseRaises(msg)

\* parse_settings_from_history with the try around the loop instead of
\* inside it: the first record that raises ends the scan
ParseStopsAtError(history) ==
    LET bad == {i \in 1..Len(history) : ScanRaises(history[i])}
        seen == IF bad = {} THEN history
                ELSE SubSeq(history, 1,
                            (CHOOSE i \in bad : \A j \in bad : i <= j) - 1)
    IN  [system_prompt |->
            LatestParsed([i \in 1..Len(seen) |-> parse_system_prompt_update(seen[i])],
                         NoPrompt),
         ai_provider |->
            LatestParsed([i \in 1..Len(seen) |-> parse_ai_provider_change(seen[i])],
                         None),
         auto_respond |->
            LatestParsed([i \in 1..Len(seen) |-> parse_auto_respond_change(seen[i])],
                         None),
         thinking_enabled |->
            LatestParsed([i \in 1..Len(seen) |-> parse_thinking_setting_change(seen[i])],
                         None)]

parse_settings_from_history(history) ==
    [system_prompt |->
        LatestParsed([i \in 1..Len(history) |->
                         IF ScanRaises(history[i]) THEN NoPrompt
                         ELSE parse_system_prompt_update(history[i])],
                     NoPrompt),
     ai_provider |->
        LatestParsed([i \in 1..Len(history) |->
                         IF ScanRaises(history[i]) THEN None
                         ELSE parse_ai_provider_change(history[i])],
                     None),
     auto_respond |->
        LatestParsed([i \in 1..Len(history) |->
                         IF ScanRaises(history[i]) THEN None
                         ELSE parse_auto_respond_change(history[i])],
                     None),
     thinking_enabled |->
        LatestParsed([i \in 1..Len(history) |->
                         IF ScanRaises(history[i]) THEN None
                         ELSE parse_thinking_setting_change(history[i])],
                     None)]

\* utils/history/settings_manager.py
validate_parsed_settings(settings) ==
    settings.ai_provider = None \/ settings.ai_provider \in VALID_PROVIDERS

\* ------------------------------------------- the in-memory dictionaries
\* A memory m holds, for the channel: history (channel_history[channel]),
\* key (channel in channel_history), prompt (channel_system_prompts, NoPrompt
\* when absent), provider (channel_ai_providers, None when absent), auto
\* (channel in auto_respond_channels), thinking (channel_thinking_enabled).
\* bot.py and the command modules are taken to share the dictionaries of
\* utils/history/storage.py.
FreshMemory ==
    [history |-> <<>>, key |-> FALSE, prompt |-> NoPrompt, provider |-> None,
     auto |-> DEFAULT_AUTO_RESPOND, thinking |-> FALSE]

add_message_to_history(m, msg) ==
    [m EXCEPT !.history = Append(@, msg), !.key = TRUE]

trim_channel_history(history, max_length) ==
    IF Len(history) > max_length
    THEN IF max_length = 0 THEN history
         ELSE SubSeq(history, Len(history) - max_length + 1, Len(history))
    ELSE history

\* kept is the set of records for which filter_func is true
filter_channel_history(m, kept) ==
    [m EXCEPT !.history = SelectSeq(@, LAMBDA msg : msg \in kept), !.key = TRUE]

\* utils/history/prompts.py
get_system_prompt(m) ==
    IF m.prompt = NoPrompt THEN DEFAULT_SYSTEM_PROMPT ELSE m.prompt

set_system_prompt(m, new_prompt) ==
    IF get_system_prompt(m) = new_prompt THEN m
    ELSE LET stored == [m EXCEPT !.prompt = new_prompt]
         IN  IF m.key
             THEN add_message_to_history(stored,
                      Rec("system", <<"SYSTEM_PROMPT_UPDATE:">> \o new_prompt))
             ELSE stored

remove_system_prompt(m) ==
    IF m.prompt = NoPrompt THEN m
    ELSE LET popped == [m EXCEPT !.prompt = NoPrompt]
         IN  IF m.key
             THEN add_message_to_history(popped,
                      Rec("system", <<"SYSTEM_PROMPT_UPDATE:">> \o DEFAULT_SYSTEM_PROMPT))
             ELSE popped

get_ai_provider(m) == m.provider
set_ai_provider(m, provider_name) == [m EXCEPT !.provider = provider_name]
remove_ai_provider(m) == [m EXCEPT !.provider = None]

\* commands/thinking_commands.py
get_thinking_enabled(m) == m.thinking
set_thinking_enabled(m, enabled) == [m EXCEPT !.thinking = enabled]

\* ---------------------------------------------------- command handlers
\* Each handler gives the memory it leaves and the messages it sends.
Done(m, sent) == [mem |-> m, sent |-> sent]

\* commands/history_commands.py, !setprompt
set_prompt_cmd(m, new_prompt) ==
    IF get_system_prompt(m) # new_prompt
    THEN Done(set_system_prompt(m, new_prompt), <<PromptUpdatedMsg(new_prompt)>>)
    ELSE Done(m, <<PromptUnchangedMsg>>)

\* commands/prompt_commands.py, !prompt
prompt_cmd(m, arg) ==
    IF arg = <<"reset">>
    THEN IF m.prompt = NoPrompt
         THEN Done(m, <<PromptAlreadyDefaultMsg>>)
         ELSE Done(remove_system_prompt(m), <<PromptResetMsg>>)
    ELSE IF get_system_prompt(m) # arg
    THEN Done(set_system_prompt(m, arg), <<PromptUpdatedMsg(arg)>>)
    ELSE Done(m, <<PromptUnchangedMsg>>)

\* commands/ai_provider_commands.py, !ai
ai_cmd(m, arg) ==
    IF arg = "reset"
    THEN IF m.provider = None
         THEN Done(m, <<ProviderAlreadyDefaultMsg>>)
         ELSE Done(remove_ai_provider(m), <<ProviderResetMsg(get_ai_provider(m))>>)
    ELSE LET effective_current ==
                 IF get_ai_provider(m) = None THEN AI_PROVIDER
                 ELSE get_ai_provider(m)
         IN  IF effective_current = arg
             THEN Done(m, <<ProviderAlreadySetMsg(arg)>>)
             ELSE Done(set_ai_provider(m, arg),
                       <<ProviderChangedMsg(effective_current, arg)>>)

\* commands/auto_respond_commands.py, !autorespond
autorespond_cmd(m, setting) ==
    LET enabled == setting = "on"
        action == IF enabled THEN "enabled" ELSE "disabled"
    IN  IF enabled /\ ~ m.auto
        THEN Done([m EXCEPT !.auto = TRUE], <<AutoRespondNowMsg("enabled")>>)
        ELSE IF ~ enabled /\ m.auto
        THEN Done([m EXCEPT !.auto = FALSE], <<AutoRespondNowMsg("disabled")>>)
        ELSE Done(m, <<AutoRespondAlreadyMsg(action)>>)

\* commands/auto_respond_commands.py, !autosetup
auto_setup(m) ==
    Done([m EXCEPT !.auto = DEFAULT_AUTO_RESPOND],
         <<AutoSetupMsg(IF DEFAULT_AUTO_RESPOND THEN "enabled" ELSE "disabled")>>)

\* commands/thinking_commands.py, !thinking
thinking_cmd(m, setting) ==
    LET enabled == setting = "on"
        action == IF enabled THEN "enabled" ELSE "disabled"
    IN  IF get_thinking_enabled(m) # enabled
        THEN Done(set_thinking_enabled(m, enabled), <<ThinkingChangedMsg(action)>>)
        ELSE Done(m, <<ThinkingAlreadyMsg(action)>>)

\* discord.py's bot.process_commands: the handler registered for the
\* first word, nothing for a message that is no command
process_commands(m, text) ==
    IF text[1] = "!setprompt" THEN set_prompt_cmd(m, Tail(text))
    ELSE IF text[1] = "!prompt" THEN prompt_cmd(m, Tail(text))
    ELSE IF text[1] = "!ai" THEN ai_cmd(m, text[2])
    ELSE IF text[1] = "!autorespond" THEN autorespond_cmd(m, text[2])
    ELSE IF text[1] = "!autosetup" THEN auto_setup(m)
    ELSE IF text[1] = "!thinking" THEN thinking_cmd(m, text[2])
    ELSE Done(m, <<>>)

\* ------------------------------------------------------ the load pipeline
\* utils/history/discord_loader.py.  T is the transcript, oldest first;
\* channel.history yields its newest INITIAL_HISTORY_LOAD messages, newest
\* first, and the automatic load skips the first one it is given.
Iterated(T, is_automatic) ==
    LET limited == IF Len(T) > INITIAL_HISTORY_LOAD
                   THEN SubSeq(T, Len(T) - INITIAL_HISTORY_LOAD + 1, Len(T))
                   ELSE T
    IN  IF is_automatic /\ Len(limited) > 0
        THEN SubSeq(limited, 1, Len(limited) - 1)
        ELSE limited

IsSetPromptCommand(content) ==
    Len(content) > 1 /\ content[1] = "!setprompt"

IsPromptConfirmation(msg) ==
    msg.author = "bot"
    /\ Contains(msg.content, <<"System", "prompt", "updated", "for">>)

\* the record built from a confirmation, as a sequence of zero or one
\* records.  The prompt text is cut out of the message, but the record is
\* then built by create_system_update_message(prompt_text, timestamp): two
\* arguments for a function of one, a TypeError that the except clause of
\* extract_prompt_from_update_message turns into None.
extract_prompt_from_update_message(content) ==
    IF ~ Contains(content, <<"New", "prompt:">>) THEN <<>>
    ELSE LET prompt_text == StripBold(AfterFirst(content, <<"New", "prompt:">>))
         IN  IF prompt_text = <<>> THEN <<>> ELSE <<>>

ConvertMessage(msg) ==
    IF Len(msg.content) > 0 /\ msg.content[1] = "!setprompt" THEN <<>>
    ELSE IF msg.author = "bot"
    THEN IF /\ Contains(msg.content, <<"System", "prompt", "updated", "for">>)
            /\ Contains(msg.content, <<"New", "prompt:">>)
            /\ extract_prompt_from_update_message(msg.content) # <<>>
         THEN extract_prompt_from_update_message(msg.content)
         ELSE <<create_assistant_message(msg.content)>>
    ELSE <<create_user_message(msg.content)>>

\* the loop over the fetched messages: every message that converts to a
\* record is appended with add_message_to_history, in transcript order
process_discord_messages(m, messages) ==
    LET stored == SelectSeq(messages, LAMBDA msg : ConvertMessage(msg) # <<>>)
    IN  IF stored = <<>> THEN m
        ELSE [m EXCEPT !.history =
                          @ \o [i \in 1..Len(stored) |-> ConvertMessage(stored[i])[1]],
                       !.key = TRUE]

load_messages_from_discord(m, T, is_automatic) ==
    LET seen == Iterated(T, is_automatic)
        commands == {i \in 1..Len(seen) : IsSetPromptCommand(seen[i].content)}
        found_setprompt == commands # {}
        \* the scan runs newest first and overwrites: the oldest command stays
        setprompt_content ==
            IF found_setprompt
            THEN Tail(seen[CHOOSE i \in commands : \A j \in commands : i <= j].content)
            ELSE <<>>
        found_setprompt_response ==
            \E i \in 1..Len(seen) : IsPromptConfirmation(seen[i])
        messages ==
            SelectSeq(seen, LAMBDA msg : ~ should_skip_message_from_history(msg.content))
        direct == found_setprompt /\ setprompt_content # <<>>
                  /\ ~ found_setprompt_response
        m1 == IF direct
              THEN [add_message_to_history(m, create_system_update_message(setprompt_content))
                        EXCEPT !.prompt = setprompt_content]
              ELSE m
    IN  process_discord_messages(m1, messages)

\* utils/history/settings_manager.py: the prompt and a valid provider are
\* stored; auto_respond and thinking_enabled are only logged
apply_restored_settings(m, settings) ==
    LET m1 == IF settings.system_prompt # NoPrompt
              THEN [m EXCEPT !.prompt = settings.system_prompt]
              ELSE m
    IN  IF settings.ai_provider # None /\ settings.ai_provider \in VALID_PROVIDERS
        THEN [m1 EXCEPT !.provider = settings.ai_provider]
        ELSE m1

\* restore_channel_settings that stores what the parser found, unchecked
RestoreUnchecked(m) ==
    IF ~ m.key \/ m.history = <<>> THEN m
    ELSE LET settings == parse_settings_from_history(m.history)
             m1 == IF settings.system_prompt # NoPrompt
                   THEN [m EXCEPT !.prompt = settings.system_prompt]
                   ELSE m
         IN  IF settings.ai_provider # None
             THEN [m1 EXCEPT !.provider = settings.ai_provider]
             ELSE m1

\* restore_channel_settings without the validation step: what the parser
\* found is handed to apply_restored_settings as it is
RestoreWithoutValidation(m) ==
    IF ~ m.key \/ m.history = <<>> THEN m
    ELSE apply_restored_settings(m, parse_settings_from_history(m.history))

\* utils/history/loading.py
restore_channel_settings(m) ==
    IF ~ m.key \/ m.history = <<>> THEN m
    ELSE LET settings == parse_settings_from_history(m.history)
         IN  IF ~ validate_parsed_settings(settings) THEN m
             ELSE apply_restored_settings(m, settings)

\* extract_system_prompt_updates takes a channel id and is handed the list
\* of records: channel_history.get(list) raises TypeError (unhashable),
\* which the except clause logs; nothing is restored
legacy_system_prompt_restoration(m) == m

finalize_history_loading(m) ==
    LET kept == filter_channel_history(m,
                    {msg \in {m.history[i] : i \in 1..Len(m.history)} :
                        ~ (/\ msg.role = "user"
                           /\ is_bot_command(msg.content)
                           /\ ~ (Len(msg.content) > 0
                                 /\ msg.content[1] = "!setprompt"))})
    IN  IF kept.prompt = NoPrompt
        THEN legacy_system_prompt_restoration(kept)
        ELSE kept

perform_history_loading(m, T, is_automatic) ==
    finalize_history_loading(
        restore_channel_settings(load_messages_from_discord(m, T, is_automatic)))

\* -------------------------------------------------------------- on_message
\* bot.py, from the prefix test to the end, for a text that does not start
\* with BOT_PREFIX; generate_ai_response answers Reply
NotStoredCommands ==
    {"!history", "!loadhistory", "!cleanhistory", "!autorespond",
     "!autostatus", "!autosetup", "!getprompt", "!resetprompt", "!setprompt"}

on_message(m, text) ==
    IF text[1] \in NotStoredCommands THEN process_commands(m, text)
    ELSE LET stored == add_message_to_history(m, create_user_message(text))
             trimmed == [stored EXCEPT
                            !.history = trim_channel_history(@, MAX_HISTORY)]
             should_auto_respond ==
                 trimmed.auto /\ ~ history_utils_is_bot_command(text)
             answered == IF should_auto_respond
                         THEN add_message_to_history(trimmed,
                                  create_assistant_message(Reply))
                         ELSE trimmed
             handled == process_commands(answered, text)
         IN  Done(handled.mem,
                  (IF should_auto_respond THEN <<Reply>> ELSE <<>>) \o handled.sent)

\* ------------------------------------------------------ the API payload
\* prepare_messages_for_api without its role filter
PrepareEveryRecord(m) ==
    <<Rec("system", get_system_prompt(m))>> \o m.history

\* prepare_messages_for_api that always opens with the default prompt
PrepareDefaultPrompt(m) ==
    <<Rec("system", DEFAULT_SYSTEM_PROMPT)>>
    \o SelectSeq(m.history, LAMBDA msg : msg.role \in {"user", "assistant"})

\* utils/history/message_processing.py
prepare_messages_for_api(m) ==
    <<Rec("system", get_system_prompt(m))>>
    \o SelectSeq(m.history, LAMBDA msg : msg.role \in {"user", "assistant"})

\* utils/history_utils.py
history_utils_prepare_messages_for_api(m) ==
    <<Rec("system", get_system_prompt(m))>>
    \o (IF m.key
        THEN SelectSeq(m.history,
                 LAMBDA msg :
                     /\ ~ (msg.role = "system"
                           /\ StartsWith(msg.content, <<"SYSTEM_PROMPT_UPDATE:">>))
                     /\ ~ (msg.role = "assistant"
                           /\ history_utils_is_history_output(msg.content)))
        ELSE <<>>)

\* =================================================================== state
VARIABLES
    transcript,               \* the channel's remote chat log, oldest first
    channel_history,          \* the window of the channel
    history_key,              \* channel in channel_history
    channel_system_prompts,   \* the prompt override, NoPrompt when absent
    channel_ai_providers,     \* the provider override, None when absent
    auto_respond_channels,    \* channel in auto_respond_channels
    channel_thinking_enabled, \* the thinking flag of the channel
    loaded_history_channels,  \* channel in loaded_history_channels
    loaded_timestamp,         \* the time of the last mark, counted in marks
    channel_locks,            \* "absent", "free", or the task holding the lock
    pc,                       \* where each task stands
    is_automatic,             \* the is_automatic argument of each task's call
    fetched,                  \* what channel.history returns to each task
    pending,                  \* the message each task's on_message handles
    fetchCount,               \* remote fetches started since the process started
    failCount,                \* loads that raised since the process started
    loadCount,                \* direct calls of load_channel_history
    locksCreated,             \* asyncio.Lock objects made for the channel
    other_channel,            \* the dictionary entries, the lock and the load
                              \* of a second channel
    response,                 \* the text handle_ai_response_task sends and
                              \* the chunk limit it is split with
    api_messages,             \* what the last prepare_messages_for_api call
                              \* was given and what it returned
    cleanRun,                 \* every settings command so far ran on a loaded channel
    preRestart,               \* the settings in force at the last restart
    firstLoad                 \* the memory left by the first direct load

vars == <<transcript, channel_history, history_key, channel_system_prompts,
          channel_ai_providers, auto_respond_channels, channel_thinking_enabled,
          loaded_history_channels, loaded_timestamp, channel_locks, pc,
          is_automatic, fetched, pending, fetchCount, failCount, loadCount,
          locksCreated, api_messages, other_channel, response, cleanRun,
          preRestart, firstLoad>>

memVars == <<channel_history, history_key, channel_system_prompts,
             channel_ai_providers, auto_respond_channels,
             channel_thinking_enabled>>
ghostVars == <<cleanRun, preRestart, firstLoad>>

Memory ==
    [history |-> channel_history, key |-> history_key,
     prompt |-> channel_system_prompts, provider |-> channel_ai_providers,
     auto |-> auto_respond_channels, thinking |-> channel_thinking_enabled]

SetMemory(m) ==
    /\ channel_history' = m.history
    /\ history_key' = m.key
    /\ channel_system_prompts' = m.prompt
    /\ channel_ai_providers' = m.provider
    /\ auto_respond_channels' = m.auto
    /\ channel_thinking_enabled' = m.thinking

\* the four settings a channel works with
EffectiveSettings(m) ==
    [prompt |-> get_system_prompt(m),
     provider |-> IF m.provider = None THEN AI_PROVIDER ELSE m.provider,
     auto |-> m.auto, thinking |-> m.thinking]

NoSnapshot == [taken |-> FALSE, settings |-> EffectiveSettings(FreshMemory)]
NoPayload == [taken |-> FALSE, mem |-> FreshMemory, messages |-> <<>>]
\* channel_history, settings, loaded flag and lock of the second channel
\* before any event of it, and the position of the task that loads it
OtherChannelUnseen ==
    [transcript |-> <<>>, mem |-> FreshMemory, loaded |-> FALSE,
     lock |-> "absent", pc |-> "idle"]

NoFirstLoad == [taken |-> FALSE, automatic |-> FALSE, mem |-> FreshMemory]

\* what users type in Spec
UserTexts ==
    {Hi, SetPromptCommand(P1), PromptCommand(P2), PromptCommand(MarkedPrompt),
     PromptResetCommand, AiCommand("anthropic"), AutoRespondCommand("on"),
     ThinkingCommand("on")}

IsSettingsCommand(text) == text[1] \in BangWords

UserPosts(T) == Cardinality({i \in 1..Len(T) : T[i].author = "user"})

\* the task the event loop gives a new message to: tasks differ in name
\* only, so the first idle one stands for any idle one
FirstIdleTask == IF pc["t1"] = "idle" THEN "t1" ELSE "t2"

\* a task that is in no call
Resting == {"idle", "returned", "returned_early", "returned_recheck",
            "raised", "timed_out"}

\* the process right after it started: every dictionary empty
StartedProcess ==
    /\ channel_history = <<>>
    /\ history_key = FALSE
    /\ channel_system_prompts = NoPrompt
    /\ channel_ai_providers = None
    /\ auto_respond_channels = DEFAULT_AUTO_RESPOND
    /\ channel_thinking_enabled = FALSE
    /\ loaded_history_channels = FALSE
    /\ loaded_timestamp = 0
    /\ channel_locks = "absent"
    /\ pc = [p \in Tasks |-> "idle"]
    /\ is_automatic = [p \in Tasks |-> FALSE]
    /\ fetched = [p \in Tasks |-> <<>>]
    /\ pending = [p \in Tasks |-> <<>>]
    /\ fetchCount = 0
    /\ failCount = 0
    /\ loadCount = 0
    /\ locksCreated = 0
    /\ api_messages = NoPayload
    /\ response = [text |-> <<>>, max_length |-> 0]
    /\ other_channel = OtherChannelUnseen
    /\ cleanRun = TRUE
    /\ preRestart = NoSnapshot
    /\ firstLoad = NoFirstLoad

Init ==
    /\ transcript = <<>>
    /\ StartedProcess

\* ================================================================= actions
\* EnterLoad without the early return for a loaded channel
EnterLoadNoEarlyReturn(p, automatic) ==
    /\ pc' = [pc EXCEPT ![p] = "waiting"]
    /\ channel_locks' = IF channel_locks = "absent" THEN "free"
                        ELSE channel_locks
    /\ locksCreated' = IF channel_locks = "absent"
                       THEN locksCreated + 1 ELSE locksCreated
    /\ is_automatic' = [is_automatic EXCEPT ![p] = automatic]

\* load_channel_history that makes a lock at every call instead of looking
\* the channel up in channel_locks first
EnterLoadNewLock(p, automatic) ==
    IF loaded_history_channels
    THEN /\ pc' = [pc EXCEPT ![p] = "returned_early"]
         /\ UNCHANGED <<channel_locks, is_automatic, locksCreated>>
    ELSE /\ pc' = [pc EXCEPT ![p] = "waiting"]
         /\ channel_locks' = "free"
         /\ locksCreated' = locksCreated + 1
         /\ is_automatic' = [is_automatic EXCEPT ![p] = automatic]

\* load_channel_history up to the await on the lock (loading.py 69-88):
\* the early return for a loaded channel, else get_or_create_channel_lock
EnterLoad(p, automatic) ==
    IF loaded_history_channels
    THEN /\ pc' = [pc EXCEPT ![p] = "returned_early"]
         /\ UNCHANGED <<channel_locks, is_automatic, locksCreated>>
    ELSE /\ pc' = [pc EXCEPT ![p] = "waiting"]
         /\ channel_locks' = IF channel_locks = "absent" THEN "free"
                             ELSE channel_locks
         /\ locksCreated' = IF channel_locks = "absent"
                            THEN locksCreated + 1 ELSE locksCreated
         /\ is_automatic' = [is_automatic EXCEPT ![p] = automatic]

\* A user posts text and on_message starts in task p (bot.py 69-104); for
\* a channel that is not loaded it calls load_channel_history(is_automatic
\* = True).  limit bounds the number of posts of a run.
ReceivePost(p, text, limit) ==
    /\ pc[p] = "idle"
    /\ p = FirstIdleTask
    /\ UserPosts(transcript) < limit
    /\ transcript' = Append(transcript, Raw("user", text))
    /\ pending' = [pending EXCEPT ![p] = text]
    /\ IF loaded_history_channels
       THEN /\ pc' = [pc EXCEPT ![p] = "dispatch"]
            /\ UNCHANGED <<channel_locks, is_automatic, locksCreated>>
       ELSE EnterLoad(p, TRUE)
    /\ UNCHANGED <<memVars, loaded_history_channels,
                   loaded_timestamp, fetched, fetchCount,
                   failCount, loadCount, ghostVars,
                   api_messages,
                   other_channel, response>>

Receive(p, text) == ReceivePost(p, text, MaxPosts)

\* A direct call of load_channel_history by a task that handles no message.
CallLoad(p, automatic) ==
    /\ pc[p] \in Resting
    /\ pending[p] = <<>>
    /\ loadCount < MaxLoads
    /\ loadCount' = loadCount + 1
    /\ EnterLoad(p, automatic)
    /\ UNCHANGED <<transcript, memVars, loaded_history_channels,
                   loaded_timestamp, fetched,
                   pending, fetchCount, failCount, ghostVars,
                   api_messages,
                   other_channel, response>>

\* AcquireLock without the second look at loaded_history_channels
AcquireLockNoRecheck(p) ==
    /\ pc[p] = "waiting"
    /\ channel_locks = "free"
    /\ pc' = [pc EXCEPT ![p] = "fetching"]
    /\ channel_locks' = p
    /\ fetched' = [fetched EXCEPT ![p] = transcript]
    /\ fetchCount' = fetchCount + 1
    /\ UNCHANGED <<transcript, memVars, loaded_history_channels,
                   loaded_timestamp, is_automatic,
                   pending, failCount, loadCount, ghostVars,
                   locksCreated, api_messages,
                   other_channel, response>>

\* AcquireLock that does not wait for the lock to be free
AcquireLockWhileHeld(p) ==
    /\ pc[p] = "waiting"
    /\ channel_locks # "absent"
    /\ IF loaded_history_channels
       THEN /\ pc' = [pc EXCEPT ![p] = "returned_recheck"]
            /\ UNCHANGED <<channel_locks, fetched, fetchCount>>
       ELSE /\ pc' = [pc EXCEPT ![p] = "fetching"]
            /\ channel_locks' = p
            /\ fetched' = [fetched EXCEPT ![p] = transcript]
            /\ fetchCount' = fetchCount + 1
    /\ UNCHANGED <<transcript, memVars, loaded_history_channels,
                   loaded_timestamp, is_automatic, pending, failCount,
                   loadCount, ghostVars,
                   locksCreated, api_messages,
                   other_channel, response>>

\* The lock is granted (loading.py 88-100): a channel loaded in the meantime
\* makes the call release and return, else the fetch starts.
AcquireLock(p) ==
    /\ pc[p] = "waiting"
    /\ channel_locks = "free"
    /\ IF loaded_history_channels
       THEN /\ pc' = [pc EXCEPT ![p] = "returned_recheck"]
            /\ UNCHANGED <<channel_locks, fetched, fetchCount>>
       ELSE /\ pc' = [pc EXCEPT ![p] = "fetching"]
            /\ channel_locks' = p
            /\ fetched' = [fetched EXCEPT ![p] = transcript]
            /\ fetchCount' = fetchCount + 1
    /\ UNCHANGED <<transcript, memVars, loaded_history_channels,
                   loaded_timestamp, is_automatic,
                   pending, failCount, loadCount, ghostVars,
                   locksCreated, api_messages,
                   other_channel, response>>

\* LockTimeout that also cancels the load of the task holding the lock
LockTimeoutCancelsLoad(p) ==
    /\ pc[p] \in {"waiting", "waiting_coordinator"}
    /\ channel_locks \in Tasks
    /\ pc' = [q \in Tasks |-> IF q = p THEN "timed_out"
                              ELSE IF q = channel_locks THEN "raised"
                              ELSE pc[q]]
    /\ channel_locks' = "free"
    /\ UNCHANGED <<transcript, memVars, loaded_history_channels,
                   loaded_timestamp, is_automatic, fetched, pending,
                   fetchCount, failCount, loadCount, ghostVars,
                   locksCreated, api_messages,
                   other_channel, response>>

\* asyncio.wait_for gives up while another task holds the lock
\* (loading.py 118-121, channel_coordinator.py 101-104)
LockTimeout(p) ==
    /\ pc[p] \in {"waiting", "waiting_coordinator"}
    /\ channel_locks \in Tasks
    /\ pc' = [pc EXCEPT ![p] = "timed_out"]
    /\ UNCHANGED <<transcript, memVars, loaded_history_channels,
                   loaded_timestamp, channel_locks,
                   is_automatic, fetched, pending, fetchCount, failCount,
                   loadCount, ghostVars,
                   locksCreated, api_messages,
                   other_channel, response>>

\* FetchFail without the release in the finally clause
FetchFailKeepsLock(p) ==
    /\ pc[p] = "fetching"
    /\ failCount < MaxFailures
    /\ failCount' = failCount + 1
    /\ pc' = [pc EXCEPT ![p] = "raised"]
    /\ fetched' = [fetched EXCEPT ![p] = <<>>]
    /\ UNCHANGED <<transcript, memVars, loaded_history_channels,
                   loaded_timestamp, channel_locks,
                   is_automatic, pending, fetchCount, loadCount, ghostVars,
                   locksCreated, api_messages,
                   other_channel, response>>

\* FetchFail that keeps the messages fetched before the error
FetchFailStoresFetched(p) ==
    /\ pc[p] = "fetching"
    /\ failCount < MaxFailures
    /\ failCount' = failCount + 1
    /\ SetMemory(load_messages_from_discord(Memory, fetched[p], is_automatic[p]))
    /\ pc' = [pc EXCEPT ![p] = "raised"]
    /\ channel_locks' = "free"
    /\ fetched' = [fetched EXCEPT ![p] = <<>>]
    /\ UNCHANGED <<transcript, loaded_history_channels, loaded_timestamp,
                   is_automatic, pending, fetchCount, loadCount, ghostVars,
                   locksCreated, api_messages,
                   other_channel, response>>

\* channel.history raises (loading.py 149-151, 108-116)
FetchFail(p) ==
    /\ pc[p] = "fetching"
    /\ failCount < MaxFailures
    /\ failCount' = failCount + 1
    /\ pc' = [pc EXCEPT ![p] = "raised"]
    /\ channel_locks' = "free"
    /\ fetched' = [fetched EXCEPT ![p] = <<>>]
    /\ UNCHANGED <<transcript, memVars, loaded_history_channels,
                   loaded_timestamp, is_automatic,
                   pending, fetchCount, loadCount, ghostVars,
                   locksCreated, api_messages,
                   other_channel, response>>

\* the fetch and the settings step ran, _finalize_history_loading raises
\* (loading.py 163-168, 108-116)
CleanupFail(p) ==
    /\ pc[p] = "fetching"
    /\ failCount < MaxFailures
    /\ failCount' = failCount + 1
    /\ SetMemory(restore_channel_settings(
                    load_messages_from_discord(Memory, fetched[p], is_automatic[p])))
    /\ pc' = [pc EXCEPT ![p] = "raised"]
    /\ channel_locks' = "free"
    /\ fetched' = [fetched EXCEPT ![p] = <<>>]
    /\ UNCHANGED <<transcript, loaded_history_channels,
                   loaded_timestamp, is_automatic, pending,
                   fetchCount, loadCount, ghostVars,
                   locksCreated, api_messages,
                   other_channel, response>>

\* the fetch returns and the load runs to its end (loading.py 98-116)
FinishLoad(p) ==
    /\ pc[p] = "fetching"
    /\ LET m == perform_history_loading(Memory, fetched[p], is_automatic[p])
       IN  /\ SetMemory(m)
           /\ firstLoad' = IF ~ firstLoad.taken /\ pending[p] = <<>>
                           THEN [taken |-> TRUE, automatic |-> is_automatic[p], mem |-> m]
                           ELSE firstLoad
    /\ loaded_history_channels' = TRUE
    /\ loaded_timestamp' = loaded_timestamp + 1
    /\ pc' = [pc EXCEPT ![p] = "returned"]
    /\ channel_locks' = "free"
    /\ fetched' = [fetched EXCEPT ![p] = <<>>]
    /\ UNCHANGED <<transcript, is_automatic, pending, fetchCount, failCount,
                   loadCount, cleanRun, preRestart,
                   locksCreated, api_messages,
                   other_channel, response>>

\* Dispatch with the mark outside the try block: the channel is marked
\* loaded however the call ended
DispatchMarksAfterFailure(p) ==
    /\ pending[p] # <<>>
    /\ pc[p] \in {"dispatch", "returned", "returned_recheck", "raised", "timed_out"}
    /\ LET marked == loaded_history_channels \/ pc[p] # "dispatch"
           handled == on_message(Memory, pending[p])
       IN  /\ loaded_history_channels' = marked
           /\ loaded_timestamp' =
                  IF pc[p] # "dispatch"
                  THEN loaded_timestamp + 1 ELSE loaded_timestamp
           /\ SetMemory(handled.mem)
           /\ transcript' = transcript
                  \o [i \in 1..Len(handled.sent) |-> Raw("bot", handled.sent[i])]
           /\ cleanRun' = (cleanRun /\ (IsSettingsCommand(pending[p]) => marked))
           /\ preRestart' = IF IsSettingsCommand(pending[p]) THEN NoSnapshot
                            ELSE preRestart
    /\ pc' = [pc EXCEPT ![p] = "idle"]
    /\ pending' = [pending EXCEPT ![p] = <<>>]
    /\ UNCHANGED <<channel_locks, is_automatic, fetched, fetchCount, failCount,
                   loadCount, firstLoad, locksCreated, api_messages,
                   other_channel, response>>

\* on_message after the load block (bot.py 110-270): the channel is marked
\* loaded when the call returned, then the message is handled and the
\* answers are sent.
Dispatch(p) ==
    /\ pending[p] # <<>>
    /\ pc[p] \in {"dispatch", "returned", "returned_recheck", "raised", "timed_out"}
    /\ LET marked == loaded_history_channels
                     \/ pc[p] \in {"returned", "returned_recheck"}
           handled == on_message(Memory, pending[p])
       IN  /\ loaded_history_channels' = marked
           /\ loaded_timestamp' =
                  IF pc[p] \in {"returned", "returned_recheck"}
                  THEN loaded_timestamp + 1 ELSE loaded_timestamp
           /\ SetMemory(handled.mem)
           /\ transcript' = transcript
                  \o [i \in 1..Len(handled.sent) |-> Raw("bot", handled.sent[i])]
           /\ cleanRun' = (cleanRun /\ (IsSettingsCommand(pending[p]) => marked))
           /\ preRestart' = IF IsSettingsCommand(pending[p]) THEN NoSnapshot
                            ELSE preRestart
    /\ pc' = [pc EXCEPT ![p] = "idle"]
    /\ pending' = [pending EXCEPT ![p] = <<>>]
    /\ UNCHANGED <<channel_locks, is_automatic, fetched, fetchCount, failCount,
                   loadCount, firstLoad,
                   locksCreated, api_messages,
                   other_channel, response>>

\* The process stops and starts again: every dictionary and every task is
\* gone, the transcript stays.
Restart ==
    /\ transcript # <<>>
    /\ channel_history' = <<>>
    /\ history_key' = FALSE
    /\ channel_system_prompts' = NoPrompt
    /\ channel_ai_providers' = None
    /\ auto_respond_channels' = DEFAULT_AUTO_RESPOND
    /\ channel_thinking_enabled' = FALSE
    /\ loaded_history_channels' = FALSE
    /\ loaded_timestamp' = 0
    /\ channel_locks' = "absent"
    /\ pc' = [p \in Tasks |-> "idle"]
    /\ is_automatic' = [p \in Tasks |-> FALSE]
    /\ fetched' = [p \in Tasks |-> <<>>]
    /\ pending' = [p \in Tasks |-> <<>>]
    /\ fetchCount' = 0
    /\ failCount' = 0
    /\ locksCreated' = 0
    /\ cleanRun' = (cleanRun /\ \A p \in Tasks :
                        pending[p] = <<>> \/ ~ IsSettingsCommand(pending[p]))
    /\ preRestart' = IF /\ cleanRun
                        /\ loaded_history_channels
                        /\ \A p \in Tasks : pc[p] = "idle"
                     THEN [taken |-> TRUE, settings |-> EffectiveSettings(Memory)]
                     ELSE NoSnapshot
    /\ UNCHANGED <<transcript, loadCount, firstLoad,
                   api_messages,
                   other_channel, response>>

\* force_reload_channel_history (loading.py 316-336)
ForceReload ==
    /\ loaded_history_channels
    /\ loaded_history_channels' = FALSE
    /\ fetchCount' = 0
    /\ failCount' = 0
    /\ UNCHANGED <<transcript, memVars, loaded_timestamp, channel_locks, pc,
                   is_automatic, fetched, pending, loadCount, ghostVars,
                   locksCreated, api_messages,
                   other_channel, response>>

Next ==
    \/ \E p \in Tasks : \E text \in UserTexts : Receive(p, text)
    \/ \E p \in Tasks : AcquireLock(p)
    \/ \E p \in Tasks : LockTimeout(p)
    \/ \E p \in Tasks : FetchFail(p)
    \/ \E p \in Tasks : CleanupFail(p)
    \/ \E p \in Tasks : FinishLoad(p)
    \/ \E p \in Tasks : Dispatch(p)
    \/ Restart

Spec == Init /\ [][Next]_vars

\* ---------------------------------------------- loads of a given transcript
\* what a transcript left by earlier runs of the bot may hold
LoadAlphabet ==
    {Raw("user", Hi),
     Raw("user", SetPromptCommand(P1)),
     Raw("user", SetPromptCommand(P2)),
     Raw("bot", PromptUpdatedMsg(P1)),
     Raw("bot", AutoRespondNowMsg("enabled")),
     Raw("bot", AutoRespondNowMsg("disabled")),
     Raw("bot", ThinkingChangedMsg("enabled")),
     Raw("bot", PlainProviderChangedMsg("openai", "anthropic"))}

Transcripts == UNION {[1..n -> LoadAlphabet] : n \in 0..MaxLen}

InitLoad ==
    /\ transcript \in Transcripts
    /\ StartedProcess

\* one task calls load_channel_history and force_reload_channel_history
NextLoad ==
    \/ \E automatic \in BOOLEAN : CallLoad("t1", automatic)
    \/ AcquireLock("t1")
    \/ FinishLoad("t1")
    \/ ForceReload

SpecLoad == InitLoad /\ [][NextLoad]_vars

\* ------------------------------------- loads through the channel coordinator
\* A call of coordinate_channel_loading up to the await on the lock
\* (channel_coordinator.py 60-72).
CallCoordinate(p, automatic) ==
    /\ pc[p] \in Resting
    /\ pending[p] = <<>>
    /\ loadCount < MaxLoads
    /\ loadCount' = loadCount + 1
    /\ IF loaded_history_channels
       THEN /\ pc' = [pc EXCEPT ![p] = "returned_early"]
            /\ UNCHANGED <<channel_locks, is_automatic, locksCreated>>
       ELSE /\ pc' = [pc EXCEPT ![p] = "waiting_coordinator"]
            /\ channel_locks' = IF channel_locks = "absent" THEN "free"
                                ELSE channel_locks
            /\ locksCreated' = IF channel_locks = "absent"
                               THEN locksCreated + 1 ELSE locksCreated
            /\ is_automatic' = [is_automatic EXCEPT ![p] = automatic]
    /\ UNCHANGED <<transcript, memVars, loaded_history_channels,
                   loaded_timestamp, fetched,
                   pending, fetchCount, failCount, ghostVars,
                   api_messages,
                   other_channel, response>>

\* The lock is granted to a call of coordinate_channel_loading
\* (channel_coordinator.py 72-83).  The second look at the loaded channels
\* returns from inside the outer try, before the inner try whose finally
\* clause releases: the call ends and the lock stays acquired.  Otherwise
\* _execute_loading_workflow starts; its three steps are those of
\* _perform_history_loading, and the inner finally releases as in loading.py.
CoordinatorAcquireLock(p) ==
    /\ pc[p] = "waiting_coordinator"
    /\ channel_locks = "free"
    /\ channel_locks' = p
    /\ IF loaded_history_channels
       THEN /\ pc' = [pc EXCEPT ![p] = "returned_recheck"]
            /\ UNCHANGED <<fetched, fetchCount>>
       ELSE /\ pc' = [pc EXCEPT ![p] = "fetching"]
            /\ fetched' = [fetched EXCEPT ![p] = transcript]
            /\ fetchCount' = fetchCount + 1
    /\ UNCHANGED <<transcript, memVars, loaded_history_channels,
                   loaded_timestamp, is_automatic,
                   pending, failCount, loadCount, ghostVars,
                   locksCreated, api_messages,
                   other_channel, response>>

\* two tasks call coordinate_channel_loading on a given transcript
NextCoordinator ==
    \/ \E p \in Tasks : \E automatic \in BOOLEAN : CallCoordinate(p, automatic)
    \/ \E p \in Tasks : CoordinatorAcquireLock(p)
    \/ \E p \in Tasks : LockTimeout(p)
    \/ \E p \in Tasks : FetchFail(p)
    \/ \E p \in Tasks : FinishLoad(p)
    \/ ForceReload

SpecCoordinator == InitLoad /\ [][NextCoordinator]_vars

\* --------------------------------------------------- on_ready while running
\* on_ready in a process that is already running (bot.py 37-66): discord.py
\* dispatches the event again whenever the gateway session is set up anew
\* after a lost connection.  It clears loaded_history_channels and sets
\* auto_respond_channels to the default; the windows, the prompts, the
\* providers, the locks and the running tasks stay.
OnReady ==
    /\ loaded_history_channels' = FALSE
    /\ auto_respond_channels' = DEFAULT_AUTO_RESPOND
    /\ fetchCount' = 0
    /\ failCount' = 0
    /\ UNCHANGED <<transcript, channel_history, history_key,
                   channel_system_prompts, channel_ai_providers,
                   channel_thinking_enabled, loaded_timestamp, channel_locks,
                   pc, is_automatic, fetched, pending, loadCount, ghostVars,
                   locksCreated, api_messages,
                   other_channel, response>>

\* the bot with reconnects
NextReady ==
    \/ \E p \in Tasks : \E text \in UserTexts : Receive(p, text)
    \/ \E p \in Tasks : AcquireLock(p)
    \/ \E p \in Tasks : LockTimeout(p)
    \/ \E p \in Tasks : FetchFail(p)
    \/ \E p \in Tasks : CleanupFail(p)
    \/ \E p \in Tasks : FinishLoad(p)
    \/ \E p \in Tasks : Dispatch(p)
    \/ Restart
    \/ OnReady

SpecReady == Init /\ [][NextReady]_vars

\* ------------------------------------------------- setting and resetting
\* what users type in SpecReset
ResetTexts == {SetPromptCommand(P1), PromptResetCommand, Hi}

\* the bot with one handler task, a prompt command, the reset command and
\* plain messages
NextReset ==
    \/ \E text \in ResetTexts : ReceivePost("t1", text, MaxResetPosts)
    \/ AcquireLock("t1")
    \/ FinishLoad("t1")
    \/ Dispatch("t1")
    \/ Restart

SpecReset == Init /\ [][NextReset]_vars

\* ------------------------------------ loads of a transcript with bot output
\* messages of users, answers of the AI, the message of a failed AI call and
\* command output as earlier runs of the bot leave them in the channel
NoiseAlphabet ==
    {Raw("user", Hi),
     Raw("user", AiCommand("anthropic")),
     Raw("bot", Reply),
     Raw("bot", ApiErrorMsg),
     Raw("bot", ReasoningMsg),
     Raw("bot", ThinkingAlreadyMsg("enabled"))}

InitNoise ==
    /\ transcript \in UNION {[1..n -> NoiseAlphabet] : n \in 0..MaxLen}
    /\ StartedProcess

SpecNoise == InitNoise /\ [][NextLoad]_vars

\* ------------------------------------------ loads of a long transcript
\* a provider confirmation with n newer messages of users after it
DeepTranscript(n) ==
    <<Raw("bot", PlainProviderChangedMsg("openai", "anthropic"))>>
    \o [i \in 1..n |-> Raw("user", Hi)]

InitDeep ==
    /\ transcript \in {DeepTranscript(n) : n \in 0..MaxNewer}
    /\ StartedProcess

SpecDeep == InitDeep /\ [][NextLoad]_vars

\* ------------------------------- loads of a transcript naming providers
\* confirmations that name a valid provider and one that names a provider
\* this code does not know
ProviderAlphabet ==
    {Raw("user", Hi),
     Raw("bot", PlainProviderChangedMsg("openai", "anthropic")),
     Raw("bot", PlainProviderChangedMsg("openai", "gemini")),
     Raw("bot", ProviderResetMsg("anthropic"))}

\* a channel that is not loaded, with or without a provider override (an
\* override is there without a load after !ai was handled behind a load
\* that raised, or after on_ready ran again)
InitProvider ==
    /\ transcript \in UNION {[1..n -> ProviderAlphabet] : n \in 0..MaxLen}
    /\ channel_ai_providers \in {None, "deepseek"}
    /\ channel_history = <<>>
    /\ history_key = FALSE
    /\ channel_system_prompts = NoPrompt
    /\ auto_respond_channels = DEFAULT_AUTO_RESPOND
    /\ channel_thinking_enabled = FALSE
    /\ loaded_history_channels = FALSE
    /\ loaded_timestamp = 0
    /\ channel_locks = "absent"
    /\ pc = [p \in Tasks |-> "idle"]
    /\ is_automatic = [p \in Tasks |-> FALSE]
    /\ fetched = [p \in Tasks |-> <<>>]
    /\ pending = [p \in Tasks |-> <<>>]
    /\ fetchCount = 0
    /\ failCount = 0
    /\ loadCount = 0
    /\ locksCreated = 0
    /\ api_messages = NoPayload
    /\ response = [text |-> <<>>, max_length |-> 0]
    /\ other_channel = OtherChannelUnseen
    /\ cleanRun = TRUE
    /\ preRestart = NoSnapshot
    /\ firstLoad = NoFirstLoad

SpecProvider == InitProvider /\ [][NextLoad]_vars

\* ------------------------------------------- building the API payload
\* A call of prepare_messages_for_api (message_processing.py 193-214): it
\* reads the prompt with dict.get and the window with dict.get, and writes
\* to neither.
CallPrepare ==
    /\ api_messages' = [taken |-> TRUE, mem |-> Memory,
                        messages |-> prepare_messages_for_api(Memory)]
    /\ UNCHANGED <<transcript, memVars, loaded_history_channels,
                   loaded_timestamp, channel_locks, pc, is_automatic,
                   fetched, pending, fetchCount, failCount, loadCount,
                   ghostVars, locksCreated,
                   other_channel, response>>

PayloadTexts == {SetPromptCommand(P1), SetPromptCommand(P2), PromptResetCommand, Hi}

\* one task handles messages that change the prompt; the payload is built
\* between any two of its steps
NextPayload ==
    \/ \E text \in PayloadTexts : ReceivePost("t1", text, MaxPosts)
    \/ AcquireLock("t1")
    \/ FinishLoad("t1")
    \/ Dispatch("t1")
    \/ Restart
    \/ CallPrepare

SpecPayload == Init /\ [][NextPayload]_vars

\* ------------------------------------ the settings scan of a given window
\* records the scan may meet: a user message, a prompt record, two
\* confirmations, and records whose content is not a text
ScanAlphabet ==
    {create_user_message(Hi),
     Rec("system", <<"SYSTEM_PROMPT_UPDATE:">> \o P1),
     create_assistant_message(AutoRespondNowMsg("enabled")),
     create_assistant_message(PlainProviderChangedMsg("openai", "anthropic")),
     create_assistant_message(PlainProviderChangedMsg("openai", "gemini")),
     Rec("system", NoneContent),
     Rec("assistant", NoneContent)}

\* a channel whose window was filled and whose settings were not restored,
\* with or without the overrides that commands handled before left
InitScan ==
    /\ channel_history \in UNION {[1..n -> ScanAlphabet] : n \in 0..MaxLen}
    /\ history_key = TRUE
    /\ transcript = <<>>
    /\ channel_system_prompts \in {NoPrompt, P2}
    /\ channel_ai_providers \in {None, "deepseek"}
    /\ auto_respond_channels = DEFAULT_AUTO_RESPOND
    /\ channel_thinking_enabled = FALSE
    /\ loaded_history_channels = FALSE
    /\ loaded_timestamp = 0
    /\ channel_locks = "absent"
    /\ pc = [p \in Tasks |-> "idle"]
    /\ is_automatic = [p \in Tasks |-> FALSE]
    /\ fetched = [p \in Tasks |-> <<>>]
    /\ pending = [p \in Tasks |-> <<>>]
    /\ fetchCount = 0
    /\ failCount = 0
    /\ loadCount = 0
    /\ locksCreated = 0
    /\ api_messages = NoPayload
    /\ response = [text |-> <<>>, max_length |-> 0]
    /\ other_channel = OtherChannelUnseen
    /\ cleanRun = TRUE
    /\ preRestart = NoSnapshot
    /\ firstLoad = NoFirstLoad

\* _restore_channel_settings (loading.py 172-222): the window is scanned and
\* what the scan found is validated and applied
RestoreSettings ==
    /\ SetMemory(restore_channel_settings(Memory))
    /\ UNCHANGED <<transcript, loaded_history_channels, loaded_timestamp,
                   channel_locks, pc, is_automatic, fetched, pending,
                   fetchCount, failCount, loadCount, ghostVars,
                   locksCreated, api_messages,
                   other_channel, response>>

SpecScan ==
    InitScan /\ [][RestoreSettings]_vars

\* ----------------------------------------------- trimming a given window
\* A call trim_channel_history(channel_id, max_length) (storage.py 94-110)
TrimWindow(max_length) ==
    /\ channel_history' = trim_channel_history(channel_history, max_length)
    /\ UNCHANGED <<transcript, history_key, channel_system_prompts,
                   channel_ai_providers, auto_respond_channels,
                   channel_thinking_enabled, loaded_history_channels,
                   loaded_timestamp, channel_locks, pc, is_automatic,
                   fetched, pending, fetchCount, failCount, loadCount,
                   ghostVars, locksCreated, api_messages,
                   other_channel, response>>

SpecTrim ==
    InitScan /\ [][\E max_length \in 0..MaxLen : TrimWindow(max_length)]_vars

\* ------------------------------------------------ loads of two channels
\* Every dictionary of storage.py is keyed by the channel id; the entries of
\* the second channel are the fields of other_channel.
thisChannelVars ==
    <<transcript, memVars, loaded_history_channels, loaded_timestamp,
      channel_locks, pc, is_automatic, fetched, pending, fetchCount,
      failCount, loadCount, locksCreated, api_messages, response,
      ghostVars>>

\* load_channel_history(other, is_automatic=False) up to the await on the
\* lock (loading.py 69-88)
CallLoadOther ==
    /\ other_channel.pc \in Resting
    /\ other_channel' =
           IF other_channel.loaded
           THEN [other_channel EXCEPT !.pc = "returned_early"]
           ELSE [other_channel EXCEPT
                    !.pc = "waiting",
                    !.lock = IF @ = "absent" THEN "free" ELSE @]
    /\ UNCHANGED thisChannelVars

\* AcquireLockOther with one lock for all channels: it waits for and takes
\* the lock of the first channel
AcquireLockOtherShared ==
    /\ other_channel.pc = "waiting"
    /\ channel_locks \in {"absent", "free"}
    /\ channel_locks' = "t2"
    /\ other_channel' = [other_channel EXCEPT !.pc = "fetching", !.lock = "held"]
    /\ UNCHANGED <<transcript, memVars, loaded_history_channels,
                   loaded_timestamp, pc, is_automatic, fetched, pending,
                   fetchCount, failCount, loadCount, locksCreated,
                   api_messages, response, ghostVars>>

\* the lock of the second channel is free and its load takes it
\* (loading.py 88-96)
AcquireLockOther ==
    /\ other_channel.pc = "waiting"
    /\ other_channel.lock = "free"
    /\ other_channel' =
           IF other_channel.loaded
           THEN [other_channel EXCEPT !.pc = "returned_recheck"]
           ELSE [other_channel EXCEPT !.pc = "fetching", !.lock = "held"]
    /\ UNCHANGED thisChannelVars

\* channel.history of the second channel raises (loading.py 108-116)
FetchFailOther ==
    /\ other_channel.pc = "fetching"
    /\ other_channel' = [other_channel EXCEPT !.pc = "raised", !.lock = "free"]
    /\ UNCHANGED thisChannelVars

\* the load of the second channel runs to its end (loading.py 98-116)
FinishLoadOther ==
    /\ other_channel.pc = "fetching"
    /\ other_channel' =
           [other_channel EXCEPT
               !.mem = perform_history_loading(@, other_channel.transcript, FALSE),
               !.loaded = TRUE,
               !.pc = "returned",
               !.lock = "free"]
    /\ UNCHANGED thisChannelVars

\* what each of the two channels may hold
ChannelTranscripts ==
    {<<>>,
     <<Raw("user", Hi)>>,
     <<Raw("user", SetPromptCommand(P1))>>,
     <<Raw("bot", PlainProviderChangedMsg("openai", "anthropic")), Raw("user", Hi)>>}

InitChannels ==
    /\ transcript \in ChannelTranscripts
    /\ other_channel \in {[OtherChannelUnseen EXCEPT !.transcript = T] :
                             T \in ChannelTranscripts}
    /\ channel_history = <<>>
    /\ history_key = FALSE
    /\ channel_system_prompts = NoPrompt
    /\ channel_ai_providers = None
    /\ auto_respond_channels = DEFAULT_AUTO_RESPOND
    /\ channel_thinking_enabled = FALSE
    /\ loaded_history_channels = FALSE
    /\ loaded_timestamp = 0
    /\ channel_locks = "absent"
    /\ pc = [p \in Tasks |-> "idle"]
    /\ is_automatic = [p \in Tasks |-> FALSE]
    /\ fetched = [p \in Tasks |-> <<>>]
    /\ pending = [p \in Tasks |-> <<>>]
    /\ fetchCount = 0
    /\ failCount = 0
    /\ loadCount = 0
    /\ locksCreated = 0
    /\ api_messages = NoPayload
    /\ response = [text |-> <<>>, max_length |-> 0]
    /\ cleanRun = TRUE
    /\ preRestart = NoSnapshot
    /\ firstLoad = NoFirstLoad

\* one task loads the first channel, another the second
NextChannels ==
    \/ \E automatic \in BOOLEAN : CallLoad("t1", automatic)
    \/ AcquireLock("t1")
    \/ FetchFail("t1")
    \/ FinishLoad("t1")
    \/ CallLoadOther
    \/ AcquireLockOther
    \/ FetchFailOther
    \/ FinishLoadOther

SpecChannels == InitChannels /\ [][NextChannels]_vars

\* ------------------------------------------------ the token budget
\* utils/context_manager.py.  A text of the model is a sequence of words and
\* the encoding gives one token per word; an empty text has no token.
MSG_OVERHEAD == 4
CONTEXT_BUDGET_PERCENT == 80

estimate_tokens(text) == Len(text)

\* the sum over messages of estimate_tokens(content) + MSG_OVERHEAD
TokensOf(messages) ==
    Cardinality(UNION {{<<i, k>> : k \in 1..(estimate_tokens(messages[i].content)
                                              + MSG_OVERHEAD)} :
                       i \in 1..Len(messages)})

\* the oldest conversation messages are dropped: the loop takes messages
\* from the newest on and breaks at the first that does not fit
build_context_for_provider(m, provider) ==
    LET all_messages == prepare_messages_for_api(m)
        budget == (provider.max_context_length * CONTEXT_BUDGET_PERCENT) \div 100
                  - provider.max_response_tokens
        system_msg == all_messages[1]
        conversation_msgs == Tail(all_messages)
        n == Len(conversation_msgs)
        system_tokens == estimate_tokens(system_msg.content) + MSG_OVERHEAD
        remaining_budget == budget - system_tokens
        fits == {j \in 0..n :
                    TokensOf(SubSeq(conversation_msgs, n - j + 1, n))
                        <= remaining_budget}
        taken == CHOOSE j \in fits : \A k \in fits : k <= j
    IN  IF budget <= 0 THEN all_messages
        ELSE IF remaining_budget <= 0 THEN <<system_msg>>
        ELSE <<system_msg>> \o SubSeq(conversation_msgs, n - taken + 1, n)

\* max_context_length and max_response_tokens of a provider
Providers ==
    {[max_context_length |-> 40, max_response_tokens |-> 8],
     [max_context_length |-> 20, max_response_tokens |-> 4],
     [max_context_length |-> 10, max_response_tokens |-> 4],
     [max_context_length |-> 10, max_response_tokens |-> 8]}

\* A call build_context_for_provider(channel_id, provider)
CallBuildContext(provider) ==
    /\ api_messages' = [taken |-> TRUE, mem |-> Memory,
                        messages |-> build_context_for_provider(Memory, provider)]
    /\ UNCHANGED <<transcript, memVars, loaded_history_channels,
                   loaded_timestamp, channel_locks, pc, is_automatic,
                   fetched, pending, fetchCount, failCount, loadCount,
                   ghostVars, locksCreated, other_channel, response>>

SpecContext ==
    InitScan /\ [][\E provider \in Providers : CallBuildContext(provider)]_vars

\* ------------------------------------------------ splitting a response
\* utils/message_utils.py.  Here a text is a sequence of characters.
\* str.rfind(sub, 0, end): the highest 0-based index at which sub lies
\* within text[0:end], -1 when there is none
rfind(text, sub, end) ==
    LET stop == IF end < Len(text) THEN end ELSE Len(text)
        hits == {i \in 0..(stop - Len(sub)) :
                    SubSeq(text, i + 1, i + Len(sub)) = sub}
    IN  IF hits = {} THEN -1
        ELSE CHOOSE i \in hits : \A j \in hits : j <= i

\* split_message that leaves out the blank it splits at
SplitDropsBlank(text, max_length) ==
    LET step(s) ==
            LET r == s.remaining_text
                word_pos == rfind(r, <<" ">>, max_length)
            IN  IF r = <<>> THEN s
                ELSE IF Len(r) <= max_length
                THEN [chunks |-> Append(s.chunks, r), remaining_text |-> <<>>]
                ELSE IF 2 * word_pos > max_length
                THEN [chunks |-> Append(s.chunks, SubSeq(r, 1, word_pos)),
                      remaining_text |-> SubSeq(r, word_pos + 2, Len(r))]
                ELSE [chunks |-> Append(s.chunks, SubSeq(r, 1, max_length)),
                      remaining_text |-> SubSeq(r, max_length + 1, Len(r))]
        loop[k \in 0..Len(text)] ==
            IF k = 0 THEN [chunks |-> <<>>, remaining_text |-> text]
            ELSE step(loop[k - 1])
    IN  IF Len(text) <= max_length THEN <<text>>
        ELSE loop[Len(text)].chunks

\* what the loop has after as many rounds as the text has characters: the
\* list it returns when it has ended by then, a list that lacks the rest of
\* the text when it has not
split_message(text, max_length) ==
    LET step(s) ==
            LET r == s.remaining_text
                sentence_pos == rfind(r, <<".", " ">>, max_length)
                word_pos == rfind(r, <<" ">>, max_length)
                split_pos == IF 2 * sentence_pos > max_length
                             THEN sentence_pos + 2
                             ELSE IF 2 * word_pos > max_length
                             THEN word_pos + 1
                             ELSE max_length
            IN  IF r = <<>> THEN s
                ELSE IF Len(r) <= max_length
                THEN [chunks |-> Append(s.chunks, r), remaining_text |-> <<>>]
                ELSE [chunks |-> Append(s.chunks, SubSeq(r, 1, split_pos)),
                      remaining_text |-> SubSeq(r, split_pos + 1, Len(r))]
        loop[k \in 0..Len(text)] ==
            IF k = 0 THEN [chunks |-> <<>>, remaining_text |-> text]
            ELSE step(loop[k - 1])
    IN  IF Len(text) <= max_length THEN <<text>>
        ELSE loop[Len(text)].chunks

\* handle_ai_response_task sends a response in chunks (response_handler.py
\* 82-86): one message of the bot for each chunk
SendResponse(text, max_length) ==
    /\ transcript = <<>>
    /\ response' = [text |-> text, max_length |-> max_length]
    /\ transcript' = [i \in 1..Len(split_message(text, max_length)) |->
                         Raw("bot", split_message(text, max_length)[i])]
    /\ UNCHANGED <<memVars, loaded_history_channels, loaded_timestamp,
                   channel_locks, pc, is_automatic, fetched, pending,
                   fetchCount, failCount, loadCount, ghostVars, locksCreated,
                   api_messages, other_channel>>

\* responses of up to MaxChars characters, limits from 1 to MaxChars
NextSplit ==
    \E text \in UNION {[1..n -> {"a", ".", " "}] : n \in 0..MaxChars} :
        \E max_length \in 1..MaxChars : SendResponse(text, max_length)

SpecSplit == Init /\ [][NextSplit]_vars


\* --------------------------------------------------- the settings commands
\* what an administrator types in SpecCommands
CommandTexts ==
    {AutoRespondCommand("on"), AutoRespondCommand("off"), <<"!autosetup">>,
     AiCommand("anthropic"), AiCommand("reset"),
     PromptCommand(P1), PromptResetCommand,
     ThinkingCommand("on"), ThinkingCommand("off")}

\* the bot with one handler task and an administrator who types settings
\* commands
NextCommands ==
    \/ \E text \in CommandTexts : ReceivePost("t1", text, MaxResetPosts)
    \/ AcquireLock("t1")
    \/ FinishLoad("t1")
    \/ Dispatch("t1")

SpecCommands == Init /\ [][NextCommands]_vars

\* ================================================================== claims
\* what the settings parser takes for a record of a settings change
IsSettingsPersistence(content) ==
    LET msg == Rec("assistant", content)
    IN  \/ parse_ai_provider_change(msg) # None
        \/ parse_auto_respond_change(msg) # None
        \/ parse_thinking_setting_change(msg) # None

\* the transcript a finished load of task t1 went through (SpecLoad never
\* changes the transcript)
Scanned == Iterated(transcript, is_automatic["t1"])

Newest(S) == CHOOSE i \in S : \A j \in S : j <= i

\* C1: after settings commands on a loaded channel, a restart followed by a
\* load gives the effective system prompt, provider, auto-respond flag and
\* thinking flag that were in force before the restart.
C1_SettingsSurviveRestart ==
    (preRestart.taken /\ loaded_history_channels)
        => EffectiveSettings(Memory) = preRestart.settings

\* C2: concurrent calls for a channel that is not loaded start one remote
\* fetch; a further fetch happens only after a load that raised.
C2_OneFetch ==
    /\ fetchCount <= 1 + failCount
    /\ (loaded_history_channels /\ failCount = 0) => fetchCount = 1

C2_SecondCallerSkips ==
    \E p \in Tasks : \E q \in Tasks \ {p} :
        /\ pc[p] = "returned"
        /\ pc[q] = "returned_recheck"
        /\ fetchCount = 1

\* C3: after a load that returned, the window holds at most MAX_HISTORY
\* records.
C3_WindowBoundedAfterLoad ==
    pc["t1"] = "returned" => Len(channel_history) <= MAX_HISTORY

\* C4: load, forced reload and load again leave the settings and the window
\* the first load alone left.
C4_ReloadIdempotent ==
    (/\ firstLoad.taken
     /\ pc["t1"] = "returned"
     /\ is_automatic["t1"] = firstLoad.automatic)
        => Memory = firstLoad.mem

\* C5: for each of the four setting types, a load restores the value of the
\* latest confirmation of that type in the transcript, whatever other
\* confirmations the transcript holds.
C5_LatestConfirmationWins ==
    pc["t1"] = "returned" =>
        LET T == Scanned
            bot == {i \in 1..Len(T) : T[i].author = "bot"}
            auto == {i \in bot : \E a \in {"enabled", "disabled"} :
                        T[i].content = AutoRespondNowMsg(a)}
            thinking == {i \in bot : \E a \in {"enabled", "disabled"} :
                        T[i].content = ThinkingChangedMsg(a)}
            provider == {i \in bot : \E old, new \in VALID_PROVIDERS :
                        T[i].content \in {ProviderChangedMsg(old, new),
                                          PlainProviderChangedMsg(old, new)}}
            prompt == {i \in bot : \E q \in Prompts :
                        T[i].content = PromptUpdatedMsg(q)}
            later == {i \in 1..Len(T) : IsSetPromptCommand(T[i].content)
                                        /\ prompt # {} /\ i > Newest(prompt)}
        IN  /\ auto # {} =>
                auto_respond_channels
                    = (T[Newest(auto)].content = AutoRespondNowMsg("enabled"))
            /\ thinking # {} =>
                channel_thinking_enabled
                    = (T[Newest(thinking)].content = ThinkingChangedMsg("enabled"))
            /\ provider # {} =>
                \E old \in VALID_PROVIDERS :
                    T[Newest(provider)].content
                        \in {ProviderChangedMsg(old, channel_ai_providers),
                             PlainProviderChangedMsg(old, channel_ai_providers)}
            /\ (prompt # {} /\ later = {}) =>
                T[Newest(prompt)].content = PromptUpdatedMsg(get_system_prompt(Memory))

\* C6: when the newest set-prompt command of the transcript has no later
\* confirmation by the bot, the system prompt after the load is the
\* argument of that command.
C6_UnconfirmedCommandApplied ==
    pc["t1"] = "returned" =>
        LET T == Scanned
            commands == {i \in 1..Len(T) : /\ T[i].author = "user"
                                           /\ IsSetPromptCommand(T[i].content)}
        IN  (/\ commands # {}
             /\ ~ \E j \in 1..Len(T) :
                     j > Newest(commands) /\ IsPromptConfirmation(T[j]))
                => get_system_prompt(Memory) = Tail(T[Newest(commands)].content)

\* C7: the payload is the system entry followed by exactly the user and
\* assistant records of the window that are neither noise nor records of a
\* settings change, in window order.
C7_PayloadLeavesOutConfirmations ==
    prepare_messages_for_api(Memory)
        = <<Rec("system", get_system_prompt(Memory))>>
          \o SelectSeq(channel_history,
                 LAMBDA msg : /\ msg.role \in {"user", "assistant"}
                              /\ ~ is_history_output(msg.content)
                              /\ ~ IsSettingsPersistence(msg.content))

\* C8, as stated: no entry of the payload, built by either
\* prepare_messages_for_api, has a content that starts with
\* SYSTEM_PROMPT_UPDATE:.
C8_NoSentinelInPayload ==
    /\ \A i \in 1..Len(prepare_messages_for_api(Memory)) :
          ~ StartsWith(prepare_messages_for_api(Memory)[i].content,
                       <<"SYSTEM_PROMPT_UPDATE:">>)
    /\ \A i \in 1..Len(history_utils_prepare_messages_for_api(Memory)) :
          ~ StartsWith(history_utils_prepare_messages_for_api(Memory)[i].content,
                       <<"SYSTEM_PROMPT_UPDATE:">>)

\* C8, amended: no entry after the leading system entry is a prompt record
\* of the window (role system, content starting with SYSTEM_PROMPT_UPDATE:);
\* the leading entry carries the prompt text of the channel as it was given.
C8_NoPromptRecordInPayload ==
    /\ \A i \in 2..Len(prepare_messages_for_api(Memory)) :
          ~ (/\ prepare_messages_for_api(Memory)[i].role = "system"
             /\ StartsWith(prepare_messages_for_api(Memory)[i].content,
                           <<"SYSTEM_PROMPT_UPDATE:">>))
    /\ \A i \in 2..Len(history_utils_prepare_messages_for_api(Memory)) :
          ~ (/\ history_utils_prepare_messages_for_api(Memory)[i].role = "system"
             /\ StartsWith(history_utils_prepare_messages_for_api(Memory)[i].content,
                           <<"SYSTEM_PROMPT_UPDATE:">>))

C8_SentinelInWindow ==
    /\ \E i \in 1..Len(channel_history) :
          /\ channel_history[i].role = "system"
          /\ StartsWith(channel_history[i].content, <<"SYSTEM_PROMPT_UPDATE:">>)
    /\ \E i \in 1..Len(channel_history) : channel_history[i].role = "user"
    /\ Len(prepare_messages_for_api(Memory)) > 1

\* C9: no message the bot sends is both noise and a record of a settings
\* change.
C9_ClassifiersDisjoint ==
    \A i \in 1..Len(transcript) :
        transcript[i].author = "bot" =>
            ~ (/\ is_history_output(transcript[i].content)
               /\ IsSettingsPersistence(transcript[i].content))

\* C10: a load that raises while fetching or cleaning up leaves the channel
\* unloaded and the lock free.
C10_FailedLoadLeavesUnloaded ==
    [][\A p \in Tasks :
          (pc[p] = "fetching" /\ pc'[p] = "raised")
              => (~ loaded_history_channels' /\ channel_locks' = "free")]_vars

C10_LoadedAfterFailure ==
    /\ failCount = 1
    /\ fetchCount = 2
    /\ loaded_history_channels
    /\ \E p \in Tasks : pc[p] = "returned"

\* C11: on every way out of a load call (the load succeeded, it raised, the
\* wait for the lock timed out, the channel was found loaded at the start or
\* after the lock was granted) the task that made the call no longer holds
\* the channel lock.
C11_LockReleasedOnExit ==
    \A p \in Tasks : pc[p] \in Resting => channel_locks # p

\* C12: when a task's wait for the channel lock times out, the task ends
\* with the timeout error and the step changes neither the window, the
\* settings, the loaded flag nor its timestamp; the task that holds the lock
\* is still in its load, with the lock and with what it fetched, so that
\* its load can run to its end and mark the channel loaded.
C12_TimeoutLeavesLoadRunning ==
    [][\A p \in Tasks :
          (pc[p] \in {"waiting", "waiting_coordinator"} /\ pc'[p] = "timed_out")
          => /\ UNCHANGED <<memVars, loaded_history_channels, loaded_timestamp>>
             /\ \E q \in Tasks \ {p} :
                   /\ pc[q] = "fetching" /\ pc'[q] = "fetching"
                   /\ channel_locks' = q
                   /\ fetched'[q] = fetched[q]
                   /\ is_automatic'[q] = is_automatic[q]]_vars

\* one task timed out and the load it waited for has returned and marked the
\* channel loaded
C12_LoadCompletedAfterTimeout ==
    \E p \in Tasks : \E q \in Tasks \ {p} :
        /\ pc[p] = "timed_out"
        /\ pc[q] = "returned"
        /\ loaded_history_channels
        /\ channel_locks = "free"

\* C13: at any time at most one task is between the grant of the channel
\* lock and its release, that is, inside the load of the channel, and that
\* task is the holder of the lock, however many tasks have called.
C13_OneLoadAtATime ==
    /\ Cardinality({p \in Tasks : pc[p] = "fetching"}) <= 1
    /\ \A p \in Tasks : pc[p] = "fetching" => channel_locks = p

\* one task is inside its load while another one waits for the lock
C13_SecondCallerWaits ==
    \E p \in Tasks : \E q \in Tasks \ {p} :
        pc[p] = "fetching" /\ pc[q] = "waiting" /\ channel_locks = p

\* C14: a loaded channel stays loaded until a forced reload: within the life
\* of a process, every step that takes the channel from loaded to not
\* loaded is a step of force_reload_channel_history (the end of the process
\* apart, which leaves no state at all).
C14_LoadedUntilForcedReload ==
    [][(loaded_history_channels /\ ~ loaded_history_channels')
          => (ForceReload \/ Restart)]_vars

\* C15: a call of load_channel_history for a channel that is loaded does
\* nothing: the call has returned when the step ends, no fetch was started,
\* the lock was neither created nor acquired, and the window, the settings,
\* the loaded flag and its timestamp are what they were.
C15_LoadOfLoadedChannelIsNoOp ==
    [][(loaded_history_channels /\ loadCount' # loadCount)
          => /\ \A p \in Tasks : pc'[p] \in Resting
             /\ UNCHANGED <<memVars, loaded_history_channels, loaded_timestamp,
                            channel_locks, fetched, fetchCount, transcript>>]_vars

\* a call found the channel loaded and returned, after a load that filled
\* the window
C15_ReturnedEarly ==
    /\ pc["t1"] = "returned_early"
    /\ loaded_history_channels
    /\ loaded_timestamp = 1
    /\ fetchCount = 1
    /\ channel_history # <<>>

\* C16: after the prompt of the channel was reset by the reset command (the
\* bot answered that the prompt was reset to default, so a prompt had been
\* set) and no prompt command was given since, a loaded channel with no
\* message in work is on the default prompt, also after a restart and the
\* load that follows it.
C16_ResetSurvivesRestart ==
    (/\ loaded_history_channels
     /\ \A p \in Tasks : pc[p] = "idle"
     /\ \E i \in 1..Len(transcript) :
           /\ transcript[i] = Raw("bot", PromptResetMsg)
           /\ \A j \in (i + 1)..Len(transcript) :
                 /\ ~ IsPromptConfirmation(transcript[j])
                 /\ transcript[j].content[1] \notin {"!setprompt", "!prompt"})
    => get_system_prompt(Memory) = DEFAULT_SYSTEM_PROMPT

\* C17: in every state, also after a restart and the load of a transcript
\* in which the bot posted the message of a failed AI call, no entry of the
\* window has a content that starts with the API error prefix.
C17_NoApiErrorInWindow ==
    \A i \in 1..Len(channel_history) :
        ~ StartsWith(channel_history[i].content, API_ERROR_PREFIX)

\* C18: when a load has returned with success, the window holds no
\* assistant entry that is_history_output takes for command output and no
\* user entry that is a command.
C18_NoNoiseAfterLoad ==
    (loaded_history_channels /\ pc["t1"] = "returned")
    => \A i \in 1..Len(channel_history) :
          /\ ~ (/\ channel_history[i].role = "assistant"
                /\ is_history_output(channel_history[i].content))
          /\ ~ (/\ channel_history[i].role = "user"
                /\ is_bot_command(channel_history[i].content))

\* C19: the load goes through the whole transcript, with no limit on the
\* number of messages (an automatic load leaves out the newest message,
\* which is the caller's own), so that the provider named by the
\* confirmation in the transcript is the provider of the channel after a
\* load that returned, however many newer messages follow the confirmation.
C19_ConfirmationRecoveredAtAnyDepth ==
    pc["t1"] = "returned" =>
        /\ Len(Scanned) = IF is_automatic["t1"] /\ transcript # <<>>
                          THEN Len(transcript) - 1 ELSE Len(transcript)
        /\ \A i \in 1..Len(transcript) :
              (/\ transcript[i]
                     = Raw("bot", PlainProviderChangedMsg("openai", "anthropic"))
               /\ (is_automatic["t1"] => i < Len(transcript)))
              => channel_ai_providers = "anthropic"

\* C20: a user message is in the window at most once: for every text, the
\* window holds no more user records of that text than users posted
\* messages of that text, also when messages arrive while the automatic
\* load that the first one started is in progress.
C20_UserMessageAtMostOnce ==
    \A text \in UserTexts :
        Cardinality({i \in 1..Len(channel_history) :
                        channel_history[i] = create_user_message(text)})
        <= Cardinality({i \in 1..Len(transcript) :
                        transcript[i] = Raw("user", text)})

\* C21: when channel.history raises while the load iterates over the
\* transcript, the load ends with the window, the settings, the loaded flag
\* and its timestamp as they were before the call.
C21_FetchErrorChangesNothing ==
    [][\A p \in Tasks :
          FetchFail(p)
          => UNCHANGED <<memVars, loaded_history_channels, loaded_timestamp>>]_vars

\* the fetch of a transcript with a message to store raised: the call has
\* ended with the error, nothing is stored and the channel is not loaded
C21_FetchRaised ==
    \E p \in Tasks :
        /\ pc[p] = "raised"
        /\ failCount = 1
        /\ Len(transcript) >= 2
        /\ transcript[1] = Raw("user", Hi)
        /\ channel_history = <<>>
        /\ ~ loaded_history_channels

\* C22: a load whose newest provider confirmation names a provider outside
\* openai, anthropic, deepseek leaves the provider override of the channel
\* as it was (its value, or absent), and the override after any load is
\* absent or one of the three names.
C22_InvalidProviderNotApplied ==
    [][\A p \in Tasks :
          (pc[p] = "fetching" /\ pc'[p] = "returned")
          => LET T == Iterated(fetched[p], is_automatic[p])
                 named == {i \in 1..Len(T) :
                             parse_ai_provider_change(
                                 Rec("assistant", T[i].content)) # None
                             /\ T[i].author = "bot"}
                 newest == CHOOSE i \in named : \A j \in named : j <= i
             IN  /\ channel_ai_providers' \in VALID_PROVIDERS \cup {None}
                 /\ (/\ named # {}
                     /\ parse_ai_provider_change(
                            Rec("assistant", T[newest].content))
                        \notin VALID_PROVIDERS)
                    => channel_ai_providers' = channel_ai_providers]_vars

\* a load returned for a transcript whose newest confirmation names gemini,
\* and the override the channel had is still there
C22_InvalidProviderSeen ==
    /\ pc["t1"] = "returned"
    /\ transcript # <<>>
    /\ transcript[Len(transcript)]
          = Raw("bot", PlainProviderChangedMsg("openai", "gemini"))
    /\ ~ is_automatic["t1"]
    /\ channel_ai_providers = "deepseek"

\* C23: every payload prepare_messages_for_api builds opens with a system
\* entry carrying the channel's current prompt (the override, else the
\* default), whatever prompt records the window holds; the call changes
\* neither window, settings nor loaded index, and a call on the state of the
\* previous call returns the same list.
C23_PayloadOpensWithCurrentPrompt ==
    [][CallPrepare =>
         /\ api_messages'.messages[1] =
                Rec("system", IF channel_system_prompts = NoPrompt
                              THEN DEFAULT_SYSTEM_PROMPT
                              ELSE channel_system_prompts)
         /\ UNCHANGED <<memVars, loaded_history_channels, loaded_timestamp>>
         /\ (api_messages.taken /\ api_messages.mem = Memory
                => api_messages'.messages = api_messages.messages)]_vars

\* a payload opening with P2 built from a window that records the earlier
\* prompt P1
C23_PayloadAfterPromptChange ==
    /\ api_messages.taken
    /\ api_messages.messages[1] = Rec("system", P2)
    /\ \E i \in 1..Len(api_messages.mem.history) :
           api_messages.mem.history[i] =
               Rec("system", <<"SYSTEM_PROMPT_UPDATE:">> \o P1)

\* C24: at most one lock object is ever made for the channel in a process:
\* every call that looks the lock up, two first calls from handlers running
\* side by side included, gets the lock the first call made.
C24_OneLockPerChannel ==
    /\ locksCreated <= 1
    /\ (channel_locks = "absent") = (locksCreated = 0)

\* two handlers that both entered the load of a channel never seen before
\* and both wait for its lock
C24_TwoFirstCallers ==
    /\ pc["t1"] = "waiting"
    /\ pc["t2"] = "waiting"
    /\ channel_locks = "free"
    /\ locksCreated = 1

C26_LoadEndsWithTrim ==
    [][\A p \in Tasks :
         FinishLoad(p) => Len(channel_history') <= MAX_HISTORY]_vars

\* C27: handling a message on a loaded channel whose window holds at most
\* MAX_HISTORY records (user message, assistant answer, prompt set or
\* reset with its record) leaves a window of at most MAX_HISTORY records.
C27_RuntimeWindowBounded ==
    [][\A p \in Tasks :
         (/\ Dispatch(p)
          /\ pc[p] = "dispatch"
          /\ loaded_history_channels
          /\ Len(channel_history) <= MAX_HISTORY)
             => Len(channel_history') <= MAX_HISTORY]_vars

\* C28: after the first load of a channel the window is in the order of the
\* transcript: its records can be matched, in order, with messages of the
\* transcript they were built from, the record stored for a !setprompt
\* command without confirmation included.
C28_WindowChronological ==
    (pc["t1"] = "returned" /\ loadCount = 1) =>
        LET T == Scanned
            w == channel_history
            BuiltFrom(rec, msg) ==
                \/ ConvertMessage(msg) = <<rec>>
                \/ /\ IsSetPromptCommand(msg.content)
                   /\ rec = create_system_update_message(Tail(msg.content))
        IN  \E f \in [1..Len(w) -> 1..Len(T)] :
                /\ \A i \in 1..Len(w) : BuiltFrom(w[i], T[f[i]])
                /\ \A i \in 1..Len(w) : \A j \in 1..Len(w) :
                       i < j => f[i] < f[j]

\* C29: a record on which the settings scan raises is skipped and the scan
\* goes on: the settings found in a window, and the settings the restore
\* step applies, are those of the same window without that record.
C29_RaisingRecordSkipped ==
    [][RestoreSettings =>
         \A i \in 1..Len(channel_history) :
             ScanRaises(channel_history[i]) =>
                 LET without == SubSeq(channel_history, 1, i - 1)
                                \o SubSeq(channel_history, i + 1,
                                          Len(channel_history))
                     restored == restore_channel_settings(
                                     [Memory EXCEPT !.history = without])
                 IN  /\ parse_settings_from_history(channel_history)
                            = parse_settings_from_history(without)
                     /\ channel_system_prompts' = restored.prompt
                     /\ channel_ai_providers' = restored.provider]_vars

\* the prompt of a record that follows a record the scan raised on was
\* applied
C29_SettingAfterRaisingRecord ==
    /\ channel_system_prompts = P1
    /\ \E i \in 1..Len(channel_history) : \E j \in 1..Len(channel_history) :
           /\ i < j
           /\ ScanRaises(channel_history[i])
           /\ channel_history[j] = Rec("system", <<"SYSTEM_PROMPT_UPDATE:">> \o P1)

\* C30: for every window and every max_length >= 0, 0 included, a call of
\* trim_channel_history leaves exactly the last min(len, max_length) records
\* of the window, in their order, so at most max_length records (the counts
\* it returns being the lengths before and after); a window within the bound
\* stays as it is.
C30_TrimKeepsLastRecords ==
    \A max_length \in 0..MaxLen :
        LET old == Len(channel_history)
            kept == IF old < max_length THEN old ELSE max_length
            trimmed == trim_channel_history(channel_history, max_length)
        IN  /\ trimmed = SubSeq(channel_history, old - kept + 1, old)
            /\ Len(trimmed) <= max_length
            /\ (old <= max_length => trimmed = channel_history)

\* C31: a record made by create_system_update_message from a prompt text P
\* is a system record whose content starts with SYSTEM_PROMPT_UPDATE:, and
\* parse_system_prompt_update reads P back from it.
C31_SentinelRoundTrip ==
    \A i \in 1..Len(channel_history) : \A P \in Prompts :
        channel_history[i] = create_system_update_message(P) =>
            /\ channel_history[i].role = "system"
            /\ StartsWith(channel_history[i].content, <<"SYSTEM_PROMPT_UPDATE:">>)
            /\ parse_system_prompt_update(channel_history[i]) = P

\* C32: loads of two channels are independent: a step of the load of one
\* channel leaves window, settings, lock and loaded flag of the other as
\* they are, and the lock of a channel is held only by a load of that
\* channel, so a load in progress on one never keeps the other from taking
\* its lock.
C32_ChannelsIndependent ==
    [][/\ (other_channel' # other_channel) => UNCHANGED thisChannelVars
       /\ (thisChannelVars' # thisChannelVars) => other_channel' = other_channel
       /\ (other_channel'.lock = "held") = (other_channel'.pc = "fetching")
       /\ (channel_locks' \in Tasks) = (pc'["t1"] = "fetching")
       /\ (other_channel.pc = "waiting" /\ other_channel.lock = "free")
              => ENABLED AcquireLockOther]_vars

\* both loads hold the lock of their channel at the same time
C32_BothLoadsInProgress ==
    /\ pc["t1"] = "fetching"
    /\ channel_locks = "t1"
    /\ other_channel.pc = "fetching"
    /\ other_channel.lock = "held"

\* C33: no record of the window is a DeepSeek reasoning block (a text that
\* starts with [DEEPSEEK_REASONING]:), also after the load of a transcript
\* that holds the reasoning message the bot sent.
C33_NoReasoningInWindow ==
    \A i \in 1..Len(channel_history) :
        ~ StartsWith(channel_history[i].content, <<REASONING_PREFIX>>)

\* C34: whatever the window, the prompt and the limits of the provider, the
\* list build_context_for_provider returns fits the input budget: its
\* messages sum to at most int(max_context_length * CONTEXT_BUDGET_PERCENT
\* / 100) - max_response_tokens tokens, overhead included.
C34_ContextFitsBudget ==
    [][\A provider \in Providers :
         CallBuildContext(provider) =>
             TokensOf(api_messages'.messages)
                 <= (provider.max_context_length * CONTEXT_BUDGET_PERCENT) \div 100
                    - provider.max_response_tokens]_vars

\* C35: for every text and every max_length >= 1, split_message ends and
\* returns chunks of at most max_length characters, none of them empty when
\* the text is not, that put together in their order are the text.
C35_ChunksRebuildText ==
    [][(response' # response) =>
         LET text == response'.text
             sent == transcript'
             before(i) ==
                 Cardinality(UNION {{<<j, k>> : k \in 1..Len(sent[j].content)} :
                                    j \in 1..(i - 1)})
         IN  /\ \A i \in 1..Len(sent) :
                    /\ Len(sent[i].content) <= response'.max_length
                    /\ (text # <<>> => sent[i].content # <<>>)
                    /\ sent[i].content
                           = SubSeq(text, before(i) + 1,
                                    before(i) + Len(sent[i].content))
             /\ before(Len(sent) + 1) = Len(text)]_vars

\* a text longer than the limit was split behind a blank, before the limit
C35_SplitAtBlank ==
    /\ response = [text |-> <<"a", "a", "a", " ", "a", "a">>, max_length |-> 5]
    /\ Len(transcript) = 2
    /\ transcript[1] = Raw("bot", <<"a", "a", "a", " ">>)
    /\ transcript[2] = Raw("bot", <<"a", "a">>)

\* C36: a channel that is not loaded can always be loaded by a later call:
\* no reachable state, after failed loads, lock timeouts, racing callers or
\* a forced reload, has the channel not loaded and its lock held by a task
\* that is not in a load, where every later load would time out.
C36_NoLockHeldWithoutLoad ==
    ~ (/\ ~ loaded_history_channels
       /\ channel_locks \in Tasks
       /\ pc[channel_locks] # "fetching")

\* C37: for each of the four settings, a step of the command layer sends a
\* state-changing confirmation of the setting exactly when it changes the
\* in-memory value of the setting, and after every step the newest
\* state-changing confirmation of a setting in the transcript names the
\* setting's current in-memory value.
C37_ConfirmationExactlyOnChange ==
    [][LET T == transcript'
           sent == {i \in (Len(transcript) + 1)..Len(T) : T[i].author = "bot"}
           bot == {i \in 1..Len(T) : T[i].author = "bot"}
           Actions == {"enabled", "disabled"}
           auto(S) == {i \in S : \E a \in Actions :
                          T[i].content \in {AutoRespondNowMsg(a), AutoSetupMsg(a)}}
           thinking(S) == {i \in S : \E a \in Actions :
                              T[i].content = ThinkingChangedMsg(a)}
           provider(S) == {i \in S : \E old \in VALID_PROVIDERS :
                              \/ T[i].content = ProviderResetMsg(old)
                              \/ \E new \in VALID_PROVIDERS :
                                    T[i].content = ProviderChangedMsg(old, new)}
           prompt(S) == {i \in S : \/ T[i].content = PromptResetMsg
                                   \/ \E q \in Prompts :
                                         T[i].content = PromptUpdatedMsg(q)}
           action(enabled) == IF enabled THEN "enabled" ELSE "disabled"
       IN  /\ (auto(sent) # {}) = (auto_respond_channels' # auto_respond_channels)
           /\ (thinking(sent) # {})
                  = (channel_thinking_enabled' # channel_thinking_enabled)
           /\ (provider(sent) # {})
                  = (channel_ai_providers' # channel_ai_providers)
           /\ (prompt(sent) # {})
                  = (channel_system_prompts' # channel_system_prompts)
           /\ auto(bot) # {} =>
                  T[Newest(auto(bot))].content
                      \in {AutoRespondNowMsg(action(auto_respond_channels')),
                           AutoSetupMsg(action(auto_respond_channels'))}
           /\ thinking(bot) # {} =>
                  T[Newest(thinking(bot))].content
                      = ThinkingChangedMsg(action(channel_thinking_enabled'))
           /\ provider(bot) # {} =>
                  \E old \in VALID_PROVIDERS :
                      T[Newest(provider(bot))].content
                          = (IF channel_ai_providers' = None
                             THEN ProviderResetMsg(old)
                             ELSE ProviderChangedMsg(old, channel_ai_providers'))
           /\ prompt(bot) # {} =>
                  T[Newest(prompt(bot))].content
                      = (IF channel_system_prompts' = NoPrompt THEN PromptResetMsg
                         ELSE PromptUpdatedMsg(channel_system_prompts'))
      ]_vars

\* C38: when a setting parsed from the stored window fails validation, the
\* backup restoration applies none of the parsed settings: the system-prompt
\* override and the provider override of the channel are after the step what
\* they were before it.
C38_RestoreAllOrNothing ==
    (/\ history_key
     /\ channel_history # <<>>
     /\ ~ validate_parsed_settings(parse_settings_from_history(channel_history)))
    => LET restored == restore_channel_settings(Memory)
       IN  /\ restored.prompt = channel_system_prompts
           /\ restored.provider = channel_ai_providers

\* a window with a prompt record and a confirmation that names gemini was
\* gone through, and the overrides the channel had are still there
C38_ValidPromptNotApplied ==
    /\ \E i, j \in 1..Len(channel_history) :
           /\ channel_history[i] = Rec("system", <<"SYSTEM_PROMPT_UPDATE:">> \o P1)
           /\ channel_history[j]
                 = create_assistant_message(PlainProviderChangedMsg("openai", "gemini"))
    /\ parse_settings_from_history(channel_history).system_prompt = P1
    /\ channel_system_prompts = P2
    /\ channel_ai_providers = "deepseek"

====
